---- MODULE Spec2Model ----
(***************************************************************************)
(* goCacheX: the single-flight coalescer (singleflight.Group.Do), the      *)
(* Group orchestrator (cache.Group.Get / load / getLocally / getFromPeer)   *)
(* over the mutex-protected LRU store, the LRU store on its own            *)
(* (lru.Cache), the consistent-hash ring (consistenthash.Map) and the HTTP  *)
(* peer pool (HTTPPool.Set / PickPeer), whole calls and statement by        *)
(* statement under its mutex; the ARC store with expiry (lru.ARC) and its   *)
(* cleanup goroutine; the byte slices behind a ByteView; the cache facade   *)
(* before and after its first add; the coalescer under fair scheduling;    *)
(* two nodes that forward a key to each other over HTTP; and lru.Cache.Add *)
(* statement by statement through its eviction loop.                       *)
(*                                                                          *)
(* Caller goroutines are the processes Procs.  Each call record of the     *)
(* coalescer owns one spawned goroutine that runs the thunk; its position  *)
(* is the field fn of the record.                                          *)
(***************************************************************************)
EXTENDS Integers, Sequences, FiniteSets, TLC

\* ------------------------------------------------------------------ bounds
NumProcs == 2
MaxDo == 3
MaxGet == 2
CacheBytes == 4
MaxOps == 4
MaxRingPeers == 4
MaxAddArgs == 3
MaxPoolPeers == 2
MaxArcList == 2
MaxTime == 3
MaxArrays == 5
NumClients == 2

Procs == 1..NumProcs
Keys == {"a", "b"}
EmptyKey == ""
MapKeys == Keys \cup {EmptyKey}
\* addresses for call records: a caller holds at most one, the map one per key
Slots == 1..(NumProcs + Cardinality(MapKeys))

\* errors; NoErr is Go's nil error
NoErr == "nil"
ErrKeyEmpty == "key is empty"
ErrKeyRequired == "key is required"
ErrThunk == "E"
ErrPeer == "peer error"
ErrLoader == "loader error"

\* Go's nil interface value; a value v is carried as <<v>>
Nil == <<>>
NoRet == [val |-> Nil, err |-> "none"]
NoSeen == [entry |-> 0, fn |-> "none", deleted |-> FALSE, checked |-> FALSE]

\* thunks handed to Do: a caller-supplied function, which behaves as the
\* counting thunk of TestDo ("count"), as the failing thunk of TestDoError
\* ("fail") or panics ("panic"), and the closure of Group.load
ThunkKind == "thunk"
LoadKind == "load"
Outcomes == {"count", "fail"}

VARIABLES
    pc,         \* caller goroutine -> position in Do / Group.Get
    key,        \* caller -> key argument
    fnk,        \* caller -> the thunk it passed
    cref,       \* caller -> the *call it holds (local c), 0 = none
    ret,        \* caller -> the (value, error) its last call returned
    seen,       \* caller -> what g.m[key] held when the caller looked it up
    mu,         \* singleflight.Group.mu: 0 = unlocked, else the holder
    mAlloc,     \* g.m != nil
    m,          \* g.m: key -> call id, 0 = no entry
    calls,      \* the heap of call records, by address; fn = "free": unallocated
    counter,    \* the counter the counting thunk increments
    proc,       \* the OS process: "up", "panicking", "exited"
    ndo,        \* number of invocations issued so far (bounded)
    peers,      \* Group.peers: attached picker, key -> owner node
    mainCache,  \* Group.mainCache: the facade and its lru.Cache
    fetches,    \* key -> number of loader calls and of peer calls made for it
    returned,   \* key -> some Group.Get(key) has returned
    overlap,    \* key -> every Group.Get(key) so far began before any returned
    reg,        \* goroutine -> the picker it is registering, between the nil
                \* test of RegisterPeers and its assignment; NoArg otherwise
    lru,        \* a stand-alone lru.Cache
    hist,       \* the operations applied to lru so far, in order
    evicted,    \* the keys the last operation on lru removed, oldest first
    ring,       \* a consistenthash.Map
    added,      \* the peer names passed to ring's Add so far, in order
    owner,      \* probe key -> what Get returned just before the last Add
    lastAdd,    \* the peer names of the last Add call
    ringGot,    \* the last Get on ring: its key and result
    pool,       \* an HTTPPool
    picked,     \* the last PickPeer on pool: its key and outcome
    pmu,        \* HTTPPool.mu: "free", or the method that holds it
    setter,     \* the goroutine calling Set: its position, arguments, loop index
    picker,     \* the goroutine calling PickPeer: its position, key, ring owner
    arc,        \* an lru.ARC: capacity, the lists t1 t2 b1 b2, cache, size, p
    now,        \* what time.Now() returns
    reaper,     \* the cleanup goroutine: how many lists of this scan it has done
    arcRes,     \* the last call on arc: its arguments, the time, what it returned
    heap,       \* the byte arrays behind the slices in use, by address
    loaned,     \* key -> the slice the Getter returned for it, 0 = none
    stored,     \* key -> the slice of the ByteView the store holds, 0 = none
    held,       \* key -> the slice a caller got from ByteSlice, 0 = none
    orig,       \* key -> the bytes the Getter's slice held when it was stored
    store,      \* a cache facade, declared with its byte budget only
    storeRes,   \* the last call on store and its outcome
    chain,      \* client -> the Group.Get calls made for it, node after node
    flight,     \* node -> the keys with an entry in its Group's coalescer
    stores,     \* node -> the mainCache of its Group
    ev          \* an lru.Cache and the position of the Add under way on it

callerVars == <<pc, key, fnk, cref, ret, seen>>
flightVars == <<mu, mAlloc, m, calls>>
envVars == <<counter, proc, ndo>>
groupVars == <<peers, mainCache, fetches, returned, overlap>>
lruVars == <<lru, hist, evicted>>
ringVars == <<ring, added, owner, lastAdd, ringGot>>
poolVars == <<pool, picked>>
syncVars == <<pmu, setter, picker>>
arcVars == <<arc, now, reaper, arcRes>>
bytesVars == <<heap, loaned, stored, held, orig>>
storeVars == <<store, storeRes>>
clusterVars == <<chain, flight, stores>>
extVars == <<syncVars, arcVars, bytesVars, storeVars, clusterVars, ev>>
libVars == <<lruVars, ringVars, poolVars, extVars>>
coreVars == <<callerVars, flightVars, envVars, groupVars, reg>>
nonPoolVars == <<coreVars, lruVars, ringVars, arcVars, bytesVars, storeVars, clusterVars, ev>>
nonArcVars == <<coreVars, lruVars, ringVars, poolVars, syncVars, bytesVars, storeVars, clusterVars, ev>>
nonBytesVars == <<coreVars, lruVars, ringVars, poolVars, syncVars, arcVars, storeVars, clusterVars, ev>>
nonClusterVars == <<coreVars, lruVars, ringVars, poolVars, syncVars, arcVars, bytesVars, storeVars, ev>>
nonEvVars == <<coreVars, lruVars, ringVars, poolVars, syncVars, arcVars, bytesVars, storeVars, clusterVars>>
nonStoreVars == <<coreVars, lruVars, ringVars, poolVars, syncVars, arcVars, bytesVars, clusterVars, ev>>
vars == <<callerVars, flightVars, envVars, groupVars, reg, libVars>>

\* ------------------------------------------------------------ call records
NewCall(p, k, f) ==
    [key |-> k, kind |-> f, leader |-> p, wg |-> 1, val |-> Nil, err |-> NoErr,
     fn |-> "spawned", out |-> "none", deleted |-> FALSE, peerFailed |-> FALSE, got |-> "none"]

\* an address no goroutine and no map entry refers to
FreeCall ==
    [key |-> EmptyKey, kind |-> "none", leader |-> 0, wg |-> 0, val |-> Nil, err |-> NoErr,
     fn |-> "free", out |-> "none", deleted |-> FALSE, peerFailed |-> FALSE, got |-> "none"]

Ids == {c \in Slots : calls[c].fn # "free"}

\* new(call): the lowest free address
NewId == CHOOSE c \in Slots : calls[c].fn = "free" /\ \A d \in Slots : d < c => calls[d].fn # "free"

\* The heap once caller p has dropped its local c: a record that neither the
\* map nor another caller refers to is garbage and its address is free again.
Release(p) ==
    [c \in Slots |->
        IF /\ c = cref[p]
           /\ \A k \in MapKeys : m[k] # c
           /\ \A q \in Procs \ {p} : cref[q] # c
        THEN FreeCall ELSE calls[c]]

\* the WaitGroup of call c lets waiters through
WgOpen(c) == calls[c].wg = 0

Up == proc # "exited"

\* ---------------------------------------------------------------- lru.Cache
\* The list ll has its front (most recent) at index 1; cache is the key set
\* of the index map.  A value is a ByteView, carried as its byte sequence.
EntryBytes(e) == Len(e.key) + Len(e.value)

New(maxBytes) == [maxBytes |-> maxBytes, nbytes |-> 0, ll |-> <<>>, cache |-> {}]

IndexOf(ll, k) == CHOOSE i \in 1..Len(ll) : ll[i].key = k

MoveToFront(ll, i) == <<ll[i]>> \o SubSeq(ll, 1, i - 1) \o SubSeq(ll, i + 1, Len(ll))

\* A RemoveOldest that leaves the key of the removed node in the index.
RemoveOldestKeepsKey(c) ==
    IF Len(c.ll) = 0 THEN c
    ELSE LET kv == c.ll[Len(c.ll)] IN
         [c EXCEPT !.ll = SubSeq(c.ll, 1, Len(c.ll) - 1),
                   !.nbytes = @ - EntryBytes(kv)]

RemoveOldest(c) ==
    IF Len(c.ll) = 0 THEN c
    ELSE LET kv == c.ll[Len(c.ll)] IN
         [c EXCEPT !.ll = SubSeq(c.ll, 1, Len(c.ll) - 1),
                   !.cache = @ \ {kv.key},
                   !.nbytes = @ - EntryBytes(kv)]

\* An Add that evicts with an if in place of the for.
EvictOnce(c) ==
    IF c.maxBytes # 0 /\ c.maxBytes < c.nbytes THEN RemoveOldest(c) ELSE c

RECURSIVE EvictLoop(_)
EvictLoop(c) ==
    IF c.maxBytes # 0 /\ c.maxBytes < c.nbytes THEN EvictLoop(RemoveOldest(c)) ELSE c

Add(c, k, v) ==
    IF k \in c.cache
    THEN LET i == IndexOf(c.ll, k)
             kv == c.ll[i]
             ll1 == MoveToFront(c.ll, i) IN
         EvictLoop([c EXCEPT !.ll = [ll1 EXCEPT ![1] = [key |-> k, value |-> v]],
                             !.nbytes = @ + Len(v) - Len(kv.value)])
    ELSE EvictLoop([c EXCEPT !.ll = <<[key |-> k, value |-> v]>> \o c.ll,
                             !.cache = @ \cup {k},
                             !.nbytes = @ + Len(k) + Len(v)])

\* A Get that returns the value and leaves the node where it is.
GetNoPromote(c, k) ==
    IF k \in c.cache
    THEN [lru |-> c, value |-> c.ll[IndexOf(c.ll, k)].value, ok |-> TRUE]
    ELSE [lru |-> c, value |-> <<>>, ok |-> FALSE]

Get(c, k) ==
    IF k \in c.cache
    THEN LET i == IndexOf(c.ll, k) IN
         [lru |-> [c EXCEPT !.ll = MoveToFront(c.ll, i)], value |-> c.ll[i].value, ok |-> TRUE]
    ELSE [lru |-> c, value |-> <<>>, ok |-> FALSE]

\* ------------------------------------------------- cache (concurrent facade)
\* Each facade method runs under cache.mu from entry to return, so each is
\* one atomic step of the goroutine that calls it.
NewCache(cacheBytes) == [alloc |-> FALSE, cacheBytes |-> cacheBytes, lru |-> New(0)]

CacheAdd(mc, k, v) ==
    LET l == IF mc.alloc THEN mc.lru ELSE New(mc.cacheBytes) IN
    [mc EXCEPT !.alloc = TRUE, !.lru = Add(l, k, v)]

CacheGet(mc, k) ==
    IF ~mc.alloc THEN [mc |-> mc, value |-> <<>>, ok |-> FALSE]
    ELSE LET r == Get(mc.lru, k) IN
         [mc |-> [mc EXCEPT !.lru = r.lru], value |-> r.value, ok |-> r.ok]

CacheHas(mc, k) == mc.alloc /\ k \in mc.lru.cache

\* ------------------------------------------------ peers, loader, values
\* Group.peers is nil (NoPicker) or a PeerPicker.  A PeerPicker is any
\* implementation of the interface: per key it returns (nil, false), carried
\* as NoPeer, or (getter, true), carried as the remote node's name.
NoPicker == [k \in Keys |-> "nil"]
\* the goroutine is not inside RegisterPeers
NoArg == [k \in Keys |-> "none"]
NoPeer == "none"
Remote == "remote"
Pickers == [Keys -> {NoPeer, Remote}]

\* the bytes the user-supplied Getter and the remote peer return for a key
LoaderBytes(k) == IF k = "a" THEN <<1>> ELSE <<2, 2>>
PeerBytes(k) == <<9>>

\* ByteView{}: the zero value view
EmptyView == <<>>

\* A []byte is carried as the address of its array in a heap h of arrays.
\* A clone that hands back the slice it was given.
cloneBytesShares(h, b) == [heap |-> h, ref |-> b]

\* cloneBytes: c := make([]byte, len(b)); copy(c, b)
cloneBytes(h, b) == [heap |-> Append(h, h[b]), ref |-> Len(h) + 1]

\* cache.Len: c.lru.Len() with no test of c.lru; on a facade whose lru is
\* still nil, Cache.Len reads c.ll through the nil *Cache and panics
CacheLen(mc) ==
    IF ~mc.alloc THEN [n |-> 0, panicked |-> TRUE]
    ELSE [n |-> Len(mc.lru.ll), panicked |-> FALSE]

NoStoreRes == [op |-> "none", key |-> "", ok |-> FALSE, value |-> <<>>, n |-> 0,
               panicked |-> FALSE]

\* --------------------------------------------------- consistenthash.Map
\* A string of decimal digits is carried as the sequence of its digits, so
\* that "1" + "6" is <<1>> \o <<6>>; the empty string is <<>>.
EmptyString == <<>>

RECURSIVE Atoi(_)
\* strconv.Atoi with its error dropped, as the hash of TestHashing does
Atoi(s) == IF Len(s) = 0 THEN 0 ELSE 10 * Atoi(SubSeq(s, 1, Len(s) - 1)) + s[Len(s)]

RECURSIVE Itoa(_)
Itoa(i) == IF i < 10 THEN <<i>> ELSE Itoa(i \div 10) \o <<i % 10>>

\* The Hash functions a Map is built with.  AtoiHash is the hash of
\* TestHashing, uint32(atoi(key)); a hash h > 0 is atoi(key) mod h, a hash
\* under which different strings collide.  The conversion to uint32 is the
\* identity on the numbers the digit strings used here denote.
AtoiHash == 0
CollidingHash == 7
Hashes == {AtoiHash, CollidingHash}
\* crc32.ChecksumIEEE, the hash NewMap takes when it is given none: a library
\* function, carried as a fixed hash of the same type
ChecksumIEEE == 65521
NilHash == -1

HashOf(hash, data) == IF hash = AtoiHash THEN Atoi(data) ELSE Atoi(data) % hash

\* the values of Map.mapping: no position mapped yet
NoMapping == [h \in {} |-> EmptyString]

NewMap(nreplicas, hashfunc) ==
    [hash |-> IF hashfunc = NilHash THEN ChecksumIEEE ELSE hashfunc, nreplicas |-> nreplicas, keys |-> <<>>, mapping |-> NoMapping]

RECURSIVE AddReplicas(_, _, _)
\* the inner loop of Add from replica i on
AddReplicas(mp, peer, i) ==
    IF i < mp.nreplicas
    THEN LET hash == HashOf(mp.hash, Itoa(i) \o peer) IN
         AddReplicas([mp EXCEPT !.keys = Append(@, hash),
                                !.mapping = (hash :> peer) @@ @], peer, i + 1)
    ELSE mp

RECURSIVE AddKeys(_, _)
\* the outer loop of Add
AddKeys(mp, keys) ==
    IF Len(keys) = 0 THEN mp ELSE AddKeys(AddReplicas(mp, Head(keys), 0), Tail(keys))

\* An Add that leaves the appended positions where they are.
MapAddNoSort(mp, keys) == AddKeys(mp, keys)

\* An Add that sorts the positions the wrong way round.
MapAddSortsDescending(mp, keys) ==
    [AddKeys(mp, keys) EXCEPT !.keys = SortSeq(@, LAMBDA a, b : a > b)]

\* Map.Add: append every replica's position, then sort.Ints
MapAdd(mp, keys) ==
    [AddKeys(mp, keys) EXCEPT !.keys = SortSeq(@, LAMBDA a, b : a < b)]

RECURSIVE Search(_, _, _, _)
\* sort.Search(len(keys), keys[i] >= hash): binary search on [i, j), 0-based
Search(keys, hash, i, j) ==
    IF i < j
    THEN LET h == (i + j) \div 2 IN
         IF ~(keys[h + 1] >= hash) THEN Search(keys, hash, h + 1, j)
         ELSE Search(keys, hash, i, h)
    ELSE i

\* A Get that clamps the index to the last position instead of wrapping.
MapGetNoWrap(mp, k) ==
    IF Len(mp.keys) = 0 THEN EmptyString
    ELSE LET hash == HashOf(mp.hash, k)
             index == Search(mp.keys, hash, 0, Len(mp.keys))
             last == Len(mp.keys) - 1 IN
         mp.mapping[mp.keys[(IF index > last THEN last ELSE index) + 1]]

\* Map.Get
MapGet(mp, k) ==
    IF Len(mp.keys) = 0 THEN EmptyString
    ELSE LET hash == HashOf(mp.hash, k)
             index == Search(mp.keys, hash, 0, Len(mp.keys)) IN
         mp.mapping[mp.keys[(index % Len(mp.keys)) + 1]]

\* peer names and lookup keys: those of TestHashing and a few more
PeerIds == {<<2>>, <<4>>, <<6>>, <<8>>}
ProbeKeys == {<<2>>, <<1, 1>>, <<2, 3>>, <<2, 7>>, <<5>>, <<1, 7>>, <<3, 0>>}
Replicas == {1, 3}
NoGot == [key |-> EmptyString, id |-> EmptyString, done |-> FALSE]

\* the arguments of one variadic call of n names at most
ArgLists(ids, n) == UNION {[1..len -> ids] : len \in 1..n}

\* ------------------------------------------------------------- HTTPPool
DefaultReplicas == 50

\* NewHTTPPool(self): peers and httpGetters are nil until Set is called.
\* httpGetters is carried as the set of peers that have a getter, and the
\* getter of a peer as the peer's name (its baseURL is peer + basePath).
NewHTTPPool(self) ==
    [self |-> self, peersNil |-> TRUE, peers |-> NewMap(0, AtoiHash), httpGetters |-> {}]

\* node names and the keys looked up on the pool
PoolIds == {<<1>>, <<2>>, <<3>>}
NoPick == [key |-> EmptyString, getter |-> EmptyString, ok |-> FALSE,
           panicked |-> FALSE, done |-> FALSE]

\* the peer lists Set is called with while PickPeer calls go on
SetArgs == {<<>>, <<<<2>>>>, <<<<1>>, <<3>>>>, <<<<3>>, <<2>>>>}

\* ------------------------------------------------- the nodes of a cluster
\* Keys on the wire.  A key is carried as the sequence of its characters, a
\* digit as itself, any other by its code.
Space == 32
Percent == 37
Plus == 43
LetterB == 66

RECURSIVE QueryEscape(_)
\* url.QueryEscape on strings of digits, spaces and '+': a digit stays, a
\* space becomes '+', a '+' becomes "%2B"
QueryEscape(s) ==
    IF Len(s) = 0 THEN <<>>
    ELSE (IF Head(s) = Space THEN <<Plus>>
          ELSE IF Head(s) = Plus THEN <<Percent, 2, LetterB>>
          ELSE <<Head(s)>>) \o QueryEscape(Tail(s))

RECURSIVE PathUnescape(_)
\* what net/url makes of the escaped path for r.URL.Path: "%2B" is '+',
\* "%20" is a space, and a '+' stays a '+'
PathUnescape(s) ==
    IF Len(s) = 0 THEN <<>>
    ELSE IF Len(s) >= 3 /\ s[1] = Percent /\ s[2] = 2 /\ s[3] = LetterB
    THEN <<Plus>> \o PathUnescape(SubSeq(s, 4, Len(s)))
    ELSE IF Len(s) >= 3 /\ s[1] = Percent /\ s[2] = 2 /\ s[3] = 0
    THEN <<Space>> \o PathUnescape(SubSeq(s, 4, Len(s)))
    ELSE <<Head(s)>> \o PathUnescape(Tail(s))

\* the key ServeHTTP reads from the request httpGetter.Get builds for key k
OnTheWire(k) == PathUnescape(QueryEscape(k))

\* the nodes, named as the pools' self, and the ring every pool holds after
\* Set with the names of all nodes
Nodes == {<<1>>, <<2>>}
ClusterRing == MapAdd(NewMap(DefaultReplicas, NilHash), <<<<1>>, <<2>>>>)
Clients == 1..NumClients
ClusterKeys == {<<5>>, <<1, Space, 2>>}

\* a Group.Get(k) that has just been called on node n; via tells how it got
\* its value in the end
Frame(n, k) == [node |-> n, key |-> k, st |-> "get", via |-> "none"]
Top(c) == chain[c][Len(chain[c])]
SetTop(c, f) == [chain[c] EXCEPT ![Len(chain[c])] = f]

\* ---------------------------------------------------------------- lru.ARC
\* A list element is carried as a record: kind tells what its Value holds, an
\* *arcEntry (then key, value, expireAt and inT2 are the entry's fields) or a
\* *list.Element (then only key, the key of the entry behind it, is
\* meaningful); idx tells that arc.cache[key] is this element.  arc.cache only
\* ever holds elements returned by t1.PushFront, so the element of a key is
\* either in t1 or in no list at all: the latter are kept in the field out.
NoExpiry == 0
ArcKeys == {"a", "b"}
\* the <<value, ttl>> a Put is called with: no ttl, a ttl of one tick, a
\* negative ttl
PutArgs == {<<1, 0>>, <<2, 1>>, <<1, -1>>}
Capacities == {0, 1, 2}
ArcLists == <<"t1", "t2", "b1", "b2">>
\* no call yet (op "fatal": the process has been stopped); due is the expiry a Put asked for: NoExpiry for ttl = 0, the
\* time now + ttl for ttl > 0, Rejected for ttl < 0; expired tells that Get
\* found the entry past its expireAt
Rejected == -1
NoArcRes == [op |-> "none", key |-> "", value |-> 0, due |-> NoExpiry, ok |-> FALSE,
             ret |-> 0, expired |-> FALSE]

NewARC(capacity) ==
    [capacity |-> capacity, t1 |-> <<>>, t2 |-> <<>>, b1 |-> <<>>, b2 |-> <<>>,
     out |-> {}, size |-> 0, p |-> 0]

\* the elements arc.cache holds, the keys it holds them under (ele, ok :=
\* arc.cache[key]) and the entry of a key (ele.Value.(*arcEntry))
ArcCache(a) == {a.t1[i] : i \in {j \in 1..Len(a.t1) : a.t1[j].idx}} \cup a.out
ArcIndex(a) == {e.key : e \in ArcCache(a)}
ArcEntry(a, k) == CHOOSE e \in ArcCache(a) : e.key = k

\* delete(arc.cache, k) for every k of ks
Delete(a, ks) ==
    [a EXCEPT !.t1 = [i \in 1..Len(@) |->
                         IF @[i].key \in ks THEN [@[i] EXCEPT !.idx = FALSE] ELSE @[i]],
              !.out = {e \in @ : e.key \notin ks}]

\* l.Remove(ele) for the element of key k: it leaves t1 if it is there, and
\* any other list as it is, Remove doing nothing for an element of another
\* list or of none
RemoveEle(a, l, k) ==
    IF l = "t1"
    THEN [a EXCEPT !.t1 = SelectSeq(@, LAMBDA x : ~(x.key = k /\ x.idx)),
                   !.out = @ \cup {e \in ArcCache(a) : e.key = k}]
    ELSE a

\* The promotion Get and PutWithTTL share.  t2.PushFront(ele) makes a new
\* element of t2 whose Value is the *list.Element ele; ele itself is in no
\* list from then on, and t2.MoveToFront(ele) finds it is not t2's.
Promote(a, k) ==
    IF ~ArcEntry(a, k).inT2
    THEN LET a1 == RemoveEle(a, "t1", k) IN
         [a1 EXCEPT !.out = {IF e.key = k THEN [e EXCEPT !.inT2 = TRUE] ELSE e : e \in @},
                    !.t2 = <<[kind |-> "Element", key |-> k, value |-> 0,
                              expireAt |-> NoExpiry, inT2 |-> TRUE, idx |-> FALSE]>> \o @]
    ELSE a

\* ARC.replace
replace(a, ent) ==
    IF Len(a.t1) = 0 /\ Len(a.t2) = 0
    THEN [a EXCEPT !.t1 = <<ent>> \o @]
    ELSE IF Len(a.t1) > 0 /\ (a.p > 0 \/ Len(a.b2) = 0)
    THEN LET last == a.t1[Len(a.t1)] IN
         IF last.kind # "arcEntry" THEN a
         ELSE LET b == <<[last EXCEPT !.inT2 = FALSE, !.idx = FALSE]>> \o a.b1
                  a1 == [a EXCEPT !.t1 = SubSeq(@, 1, Len(@) - 1),
                                  !.b1 = IF Len(b) > a.capacity
                                         THEN SubSeq(b, 1, Len(b) - 1) ELSE b,
                                  !.p = IF @ - 1 > 0 THEN @ - 1 ELSE 0]
                  a2 == Delete(a1, {last.key}) IN
              [a2 EXCEPT !.t1 = <<ent>> \o @]
    ELSE IF Len(a.t2) = 0 THEN a
    ELSE LET last == a.t2[Len(a.t2)] IN
         IF last.kind # "arcEntry" THEN a
         ELSE LET b == <<[last EXCEPT !.inT2 = TRUE, !.idx = FALSE]>> \o a.b2
                  a1 == [a EXCEPT !.t2 = SubSeq(@, 1, Len(@) - 1),
                                  !.b2 = IF Len(b) > a.capacity
                                         THEN SubSeq(b, 1, Len(b) - 1) ELSE b,
                                  !.p = IF @ + 1 < a.capacity THEN @ + 1 ELSE a.capacity]
                  a2 == Delete(a1, {last.key}) IN
              [a2 EXCEPT !.t1 = <<ent>> \o @]

\* PutWithTTL past its test of ttl, at time t
PutEntry(a, t, k, v, ttl) ==
    LET exp == IF ttl > 0 THEN t + ttl ELSE NoExpiry
        Set2(e) == IF e.key = k /\ e.idx
                   THEN [e EXCEPT !.value = v, !.expireAt = exp] ELSE e IN
    IF k \in ArcIndex(a)
    THEN Promote([a EXCEPT !.t1 = [i \in 1..Len(@) |-> Set2(@[i])],
                           !.out = {Set2(e) : e \in @}], k)
    ELSE LET ent == [kind |-> "arcEntry", key |-> k, value |-> v, expireAt |-> exp,
                     inT2 |-> FALSE, idx |-> TRUE] IN
         IF a.size < a.capacity
         THEN [a EXCEPT !.t1 = <<ent>> \o @, !.size = @ + 1]
         ELSE replace(a, ent)

\* ARC.cleanupList on the list named l, at time t
cleanupList(a, t, l) ==
    LET Expired(x) == x.kind = "arcEntry" /\ x.expireAt # NoExpiry /\ t > x.expireAt
        dead == {i \in 1..Len(a[l]) : Expired(a[l][i])}
        a1 == [a EXCEPT ![l] = SelectSeq(@, LAMBDA x : ~Expired(x)),
                        !.size = @ - Cardinality(dead)] IN
    Delete(a1, {a[l][i].key : i \in dead})

\* ------------------------------------------------ inputs of the lru.Cache
LruKeys == {"k1", "k2", "k3"}
LruValues == {<<7>>, <<7, 7, 7>>, <<7, 7, 7, 7, 7, 7, 7, 7, 7>>}
LruBudgets == {6, 10}
\* the budgets New is given where Add is followed statement by statement:
\* any int64 is taken
AnyBudgets == {-1, 0, 6}

\* ------------------------------------------------------------------- Init
\* a Group fresh from NewGroup, with its coalescer and its callers
InitGroup ==
    /\ pc = [p \in Procs |-> "idle"]
    /\ key = [p \in Procs |-> EmptyKey]
    /\ fnk = [p \in Procs |-> "none"]
    /\ cref = [p \in Procs |-> 0]
    /\ ret = [p \in Procs |-> NoRet]
    /\ seen = [p \in Procs |-> NoSeen]
    /\ mu = 0
    /\ mAlloc = FALSE
    /\ m = [k \in MapKeys |-> 0]
    /\ calls = [c \in Slots |-> FreeCall]
    /\ counter = 0
    /\ proc = "up"
    /\ ndo = 0
    /\ peers = NoPicker
    /\ mainCache = NewCache(CacheBytes)
    /\ fetches = [k \in Keys |-> [loader |-> 0, peer |-> 0]]
    /\ returned = [k \in Keys |-> FALSE]
    /\ overlap = [k \in Keys |-> TRUE]
    /\ reg = [p \in Procs |-> NoArg]

\* a stand-alone lru.Cache fresh from New(maxBytes, nil)
InitLruOf(budgets) ==
    /\ \E maxBytes \in budgets : lru = New(maxBytes)
    /\ hist = <<>>
    /\ evicted = {}

\* a stand-alone Map fresh from NewMap
InitRingOf(replicas, hashes) ==
    /\ \E n \in replicas, h \in hashes : ring = NewMap(n, h)
    /\ added = <<>>
    /\ owner = [k \in ProbeKeys |-> EmptyString]
    /\ lastAdd = <<>>
    /\ ringGot = NoGot

\* an HTTPPool fresh from NewHTTPPool
InitPoolOf(selves) ==
    /\ \E self \in selves : pool = NewHTTPPool(self)
    /\ picked = NoPick

\* no goroutine is inside Set or PickPeer
InitSync ==
    /\ pmu = "free"
    /\ setter = [pc |-> "idle", peers |-> <<>>, i |-> 0]
    /\ picker = [pc |-> "idle", key |-> EmptyString, peer |-> EmptyString]

\* an ARC fresh from NewARC; its cleanup goroutine waits for the ticker
InitArcOf(capacities) ==
    /\ \E c \in capacities : arc = NewARC(c)
    /\ now = 1
    /\ reaper = 0
    /\ arcRes = NoArcRes

\* no slice handed out, nothing stored
InitBytes ==
    /\ heap = <<>>
    /\ loaned = [k \in Keys |-> 0]
    /\ stored = [k \in Keys |-> 0]
    /\ held = [k \in Keys |-> 0]
    /\ orig = [k \in Keys |-> <<>>]

\* a facade declared as cache{cacheBytes: n}: lru is nil
InitStoreOf(budgets) ==
    /\ \E n \in budgets : store = NewCache(n)
    /\ storeRes = NoStoreRes

\* every node with a Group fresh from NewGroup(name, 2<<10, getter), no call
\* under way
InitNodes ==
    /\ chain = [c \in Clients |-> <<>>]
    /\ flight = [n \in Nodes |-> {}]
    /\ stores = [n \in Nodes |-> NewCache(2048)]

\* an lru.Cache fresh from New(maxBytes, nil), no Add under way
InitEvOf(budgets) == \E maxBytes \in budgets : ev = [lru |-> New(maxBytes), pc |-> "idle"]

InitExt ==
    InitSync /\ InitArcOf({1}) /\ InitBytes /\ InitStoreOf({10}) /\ InitNodes /\ InitEvOf({10})

Init ==
    /\ InitGroup
    /\ InitLruOf({10})
    /\ InitRingOf({3}, {AtoiHash})
    /\ InitPoolOf({<<1>>})
    /\ InitExt

\* --------------------------------------------------- singleflight.Group.Do
\* g.mu.Lock() at the head of Do: the caller takes the mutex.
DoEnter(p, k, f) ==
    /\ Up
    /\ mu = 0
    /\ mu' = p
    /\ pc' = [pc EXCEPT ![p] = "locked"]
    /\ key' = [key EXCEPT ![p] = k]
    /\ fnk' = [fnk EXCEPT ![p] = f]
    /\ cref' = [cref EXCEPT ![p] = 0]
    /\ ret' = [ret EXCEPT ![p] = NoRet]
    /\ seen' = [seen EXCEPT ![p] = NoSeen]
    /\ calls' = Release(p)
    /\ UNCHANGED <<mAlloc, m>>

\* what the caller finds at g.m[key], taken under the mutex
Lookup(p) ==
    [entry |-> m[key[p]],
     fn |-> IF m[key[p]] = 0 THEN "none" ELSE calls[m[key[p]]].fn,
     deleted |-> IF m[key[p]] = 0 THEN FALSE ELSE calls[m[key[p]]].deleted,
     checked |-> TRUE]

\* the (value, error) a caller returns from call c; Group.load maps a failed
\* Do to (ByteView{}, err)
Result(p, c) ==
    IF fnk[p] = LoadKind /\ calls[c].err # NoErr
    THEN [val |-> <<EmptyView>>, err |-> calls[c].err]
    ELSE [val |-> calls[c].val, err |-> calls[c].err]

\* Do without the empty-key test: the empty key is looked up like any other.
DoEmptyKeyUnchecked(p) ==
    /\ Up
    /\ pc[p] = "locked"
    /\ key[p] = EmptyKey
    /\ mAlloc' = TRUE
    /\ IF m[key[p]] # 0
       THEN /\ cref' = [cref EXCEPT ![p] = m[key[p]]]
            /\ pc' = [pc EXCEPT ![p] = "joinwait"]
            /\ UNCHANGED <<m, calls>>
       ELSE /\ calls' = [calls EXCEPT ![NewId] = NewCall(p, key[p], fnk[p])]
            /\ m' = [m EXCEPT ![key[p]] = NewId]
            /\ cref' = [cref EXCEPT ![p] = NewId]
            /\ pc' = [pc EXCEPT ![p] = "leadwait"]
    /\ seen' = [seen EXCEPT ![p] = Lookup(p)]
    /\ mu' = 0
    /\ UNCHANGED <<reg, libVars, key, fnk, ret, envVars, groupVars>>

\* key == "": unlock and fail.
DoEmptyKey(p) ==
    /\ Up
    /\ pc[p] = "locked"
    /\ key[p] = EmptyKey
    /\ mAlloc' = TRUE
    /\ mu' = 0
    /\ pc' = [pc EXCEPT ![p] = "done"]
    /\ ret' = [ret EXCEPT ![p] = [val |-> Nil, err |-> ErrKeyEmpty]]
    /\ seen' = [seen EXCEPT ![p] = [NoSeen EXCEPT !.checked = TRUE]]
    /\ UNCHANGED <<reg, libVars, key, fnk, cref, m, calls, envVars, groupVars>>

\* Do without coalescing: a caller that finds an entry still allocates its
\* own call, publishes it and runs its own thunk.
DoJoinNoCoalesce(p) ==
    /\ Up
    /\ pc[p] = "locked"
    /\ key[p] # EmptyKey
    /\ m[key[p]] # 0
    /\ mAlloc' = TRUE
    /\ calls' = [calls EXCEPT ![NewId] = NewCall(p, key[p], fnk[p])]
    /\ m' = [m EXCEPT ![key[p]] = NewId]
    /\ cref' = [cref EXCEPT ![p] = NewId]
    /\ seen' = [seen EXCEPT ![p] = Lookup(p)]
    /\ mu' = 0
    /\ pc' = [pc EXCEPT ![p] = "leadwait"]
    /\ UNCHANGED <<reg, libVars, key, fnk, ret, envVars, groupVars>>

\* An entry exists: unlock, then wait on its WaitGroup.
DoJoin(p) ==
    /\ Up
    /\ pc[p] = "locked"
    /\ key[p] # EmptyKey
    /\ m[key[p]] # 0
    /\ mAlloc' = TRUE
    /\ cref' = [cref EXCEPT ![p] = m[key[p]]]
    /\ seen' = [seen EXCEPT ![p] = Lookup(p)]
    /\ mu' = 0
    /\ pc' = [pc EXCEPT ![p] = "joinwait"]
    /\ UNCHANGED <<reg, libVars, key, fnk, ret, m, calls, envVars, groupVars>>

\* The leader with the unlock deferred to the end of Do: the mutex stays
\* held while the thunk runs.
DoLeadHoldingLock(p) ==
    /\ Up
    /\ pc[p] = "locked"
    /\ key[p] # EmptyKey
    /\ m[key[p]] = 0
    /\ mAlloc' = TRUE
    /\ calls' = [calls EXCEPT ![NewId] = NewCall(p, key[p], fnk[p])]
    /\ m' = [m EXCEPT ![key[p]] = NewId]
    /\ cref' = [cref EXCEPT ![p] = NewId]
    /\ seen' = [seen EXCEPT ![p] = Lookup(p)]
    /\ mu' = mu
    /\ pc' = [pc EXCEPT ![p] = "leadwait"]
    /\ UNCHANGED <<reg, libVars, key, fnk, ret, envVars, groupVars>>

\* No entry: allocate the call, wg.Add(1), publish it, unlock, spawn the
\* goroutine that runs fn, and go on to c.wg.Wait().
DoLead(p) ==
    /\ Up
    /\ pc[p] = "locked"
    /\ key[p] # EmptyKey
    /\ m[key[p]] = 0
    /\ mAlloc' = TRUE
    /\ calls' = [calls EXCEPT ![NewId] = NewCall(p, key[p], fnk[p])]
    /\ m' = [m EXCEPT ![key[p]] = NewId]
    /\ cref' = [cref EXCEPT ![p] = NewId]
    /\ seen' = [seen EXCEPT ![p] = Lookup(p)]
    /\ mu' = 0
    /\ pc' = [pc EXCEPT ![p] = "leadwait"]
    /\ UNCHANGED <<reg, libVars, key, fnk, ret, envVars, groupVars>>

\* A joiner that does not wait on the WaitGroup before it reads c.val, c.err.
DoJoinReturnNoWait(p) ==
    /\ Up
    /\ pc[p] = "joinwait"
    /\ ret' = [ret EXCEPT ![p] = Result(p, cref[p])]
    /\ pc' = [pc EXCEPT ![p] = "done"]
    /\ returned' = IF fnk[p] = LoadKind THEN [returned EXCEPT ![key[p]] = TRUE] ELSE returned
    /\ UNCHANGED <<reg, libVars, key, fnk, cref, seen, flightVars, envVars, peers, mainCache, fetches, overlap>>

\* A joiner's c.wg.Wait() returns; it returns c.val, c.err.
DoJoinReturn(p) ==
    /\ Up
    /\ pc[p] = "joinwait"
    /\ WgOpen(cref[p])
    /\ ret' = [ret EXCEPT ![p] = Result(p, cref[p])]
    /\ pc' = [pc EXCEPT ![p] = "done"]
    /\ returned' = IF fnk[p] = LoadKind THEN [returned EXCEPT ![key[p]] = TRUE] ELSE returned
    /\ UNCHANGED <<reg, libVars, key, fnk, cref, seen, flightVars, envVars, peers, mainCache, fetches, overlap>>

\* A leader that does not wait for its thunk before it goes on to delete.
DoRelockNoWait(p) ==
    /\ Up
    /\ pc[p] = "leadwait"
    /\ mu = 0
    /\ mu' = p
    /\ pc' = [pc EXCEPT ![p] = "deleting"]
    /\ UNCHANGED <<reg, libVars, key, fnk, cref, ret, seen, mAlloc, m, calls, envVars, groupVars>>

\* The leader's c.wg.Wait() returns and it takes the mutex again.
DoRelock(p) ==
    /\ Up
    /\ pc[p] = "leadwait"
    /\ WgOpen(cref[p])
    /\ mu = 0
    /\ mu' = p
    /\ pc' = [pc EXCEPT ![p] = "deleting"]
    /\ UNCHANGED <<reg, libVars, key, fnk, cref, ret, seen, mAlloc, m, calls, envVars, groupVars>>

\* A leader that returns without delete(g.m, key): the entry stays.
DoDeleteKeepsEntry(p) ==
    /\ Up
    /\ pc[p] = "deleting"
    /\ m' = m
    /\ calls' = [calls EXCEPT ![cref[p]].deleted = TRUE]
    /\ mu' = 0
    /\ ret' = [ret EXCEPT ![p] = Result(p, cref[p])]
    /\ pc' = [pc EXCEPT ![p] = "done"]
    /\ returned' = IF fnk[p] = LoadKind THEN [returned EXCEPT ![key[p]] = TRUE] ELSE returned
    /\ UNCHANGED <<reg, libVars, key, fnk, cref, seen, mAlloc, envVars, peers, mainCache, fetches, overlap>>

\* delete(g.m, key); unlock; return c.val, c.err.
DoDelete(p) ==
    /\ Up
    /\ pc[p] = "deleting"
    /\ m' = [m EXCEPT ![key[p]] = 0]
    /\ calls' = [calls EXCEPT ![cref[p]].deleted = TRUE]
    /\ mu' = 0
    /\ ret' = [ret EXCEPT ![p] = Result(p, cref[p])]
    /\ pc' = [pc EXCEPT ![p] = "done"]
    /\ returned' = IF fnk[p] = LoadKind THEN [returned EXCEPT ![key[p]] = TRUE] ELSE returned
    /\ UNCHANGED <<reg, libVars, key, fnk, cref, seen, mAlloc, envVars, peers, mainCache, fetches, overlap>>

\* ------------------------------------------- the goroutine spawned by Do
\* The spawned goroutine is scheduled and enters fn.
ThunkStart(c) ==
    /\ Up
    /\ calls[c].fn = "spawned"
    /\ calls' = [calls EXCEPT ![c].fn = "running"]
    /\ UNCHANGED <<reg, libVars, callerVars, mu, mAlloc, m, envVars, groupVars>>

\* fn returns and c.val, c.err are assigned: the counting thunk increments
\* the counter and returns it, the failing thunk returns (nil, E).
ThunkReturn(c, out) ==
    /\ Up
    /\ calls[c].fn = "running"
    /\ calls[c].kind = ThunkKind
    /\ IF out = "count"
       THEN /\ counter' = counter + 1
            /\ calls' = [calls EXCEPT ![c].fn = "assigned",
                                      ![c].out = out,
                                      ![c].val = <<counter + 1>>,
                                      ![c].err = NoErr]
       ELSE /\ counter' = counter
            /\ calls' = [calls EXCEPT ![c].fn = "assigned",
                                      ![c].out = out,
                                      ![c].val = Nil,
                                      ![c].err = ErrThunk]
    /\ UNCHANGED <<reg, libVars, callerVars, mu, mAlloc, m, proc, ndo, groupVars>>

\* fn panics: nothing is assigned and the goroutine starts to unwind.
ThunkPanic(c) ==
    /\ Up
    /\ calls[c].fn = "running"
    /\ calls[c].kind = ThunkKind
    /\ calls' = [calls EXCEPT ![c].fn = "unwinding", ![c].out = "panic"]
    /\ UNCHANGED <<reg, libVars, callerVars, mu, mAlloc, m, envVars, groupVars>>

\* A goroutine that ends without c.wg.Done().
ThunkDoneKeepsWg(c) ==
    /\ Up
    /\ calls[c].fn \in {"assigned", "unwinding"}
    /\ calls' = [calls EXCEPT ![c].fn = IF calls[c].fn = "assigned" THEN "done" ELSE "fatal"]
    /\ proc' = IF calls[c].fn = "unwinding" THEN "panicking" ELSE proc
    /\ UNCHANGED <<reg, libVars, callerVars, mu, mAlloc, m, counter, ndo, groupVars>>

\* The deferred c.wg.Done() runs, on return and on panic alike.  After it a
\* panic leaves the goroutine's bottom frame unrecovered, which makes the
\* Go runtime terminate the process.
ThunkDone(c) ==
    /\ Up
    /\ calls[c].fn \in {"assigned", "unwinding"}
    /\ calls' = [calls EXCEPT ![c].wg = 0,
                              ![c].fn = IF calls[c].fn = "assigned" THEN "done" ELSE "fatal"]
    /\ proc' = IF calls[c].fn = "unwinding" THEN "panicking" ELSE proc
    /\ UNCHANGED <<reg, libVars, callerVars, mu, mAlloc, m, counter, ndo, groupVars>>

\* The runtime's fatal-panic path exits the process; until it does, the
\* other goroutines keep running.
Crash ==
    /\ proc = "panicking"
    /\ proc' = "exited"
    /\ UNCHANGED <<reg, libVars, callerVars, flightVars, counter, ndo, groupVars>>

\* A goroutine calls g.Do(k, f).
Do(p, k) ==
    /\ pc[p] \in {"idle", "done"}
    /\ ndo < MaxDo
    /\ ndo' = ndo + 1
    /\ DoEnter(p, k, ThunkKind)
    /\ UNCHANGED <<reg, libVars, counter, proc, groupVars>>

NextFlight ==
    \/ \E p \in Procs, k \in MapKeys : Do(p, k)
    \/ \E p \in Procs : DoEmptyKey(p)
    \/ \E p \in Procs : DoJoin(p)
    \/ \E p \in Procs : DoLead(p)
    \/ \E p \in Procs : DoJoinReturn(p)
    \/ \E p \in Procs : DoRelock(p)
    \/ \E p \in Procs : DoDelete(p)
    \/ \E c \in Ids : ThunkStart(c)
    \/ \E c \in Ids, out \in Outcomes : ThunkReturn(c, out)
    \/ \E c \in Ids : ThunkPanic(c)
    \/ \E c \in Ids : ThunkDone(c)
    \/ Crash

SpecFlight == Init /\ [][NextFlight]_vars

\* Do with thunks that all return.  A goroutine that can run does run (the
\* Go scheduler), every fn returns, and a goroutine blocked in g.mu.Lock()
\* gets the mutex when it is released often enough (sync.Mutex hands it
\* over to a waiter that has starved).
NextFlightLive ==
    \/ \E p \in Procs, k \in MapKeys : Do(p, k)
    \/ \E p \in Procs : DoEmptyKey(p)
    \/ \E p \in Procs : DoJoin(p)
    \/ \E p \in Procs : DoLead(p)
    \/ \E p \in Procs : DoJoinReturn(p)
    \/ \E p \in Procs : DoRelock(p)
    \/ \E p \in Procs : DoDelete(p)
    \/ \E c \in Ids : ThunkStart(c)
    \/ \E c \in Ids, out \in Outcomes : ThunkReturn(c, out)
    \/ \E c \in Ids : ThunkDone(c)

FairFlight ==
    /\ \A p \in Procs :
           /\ WF_vars(DoEmptyKey(p) \/ DoJoin(p) \/ DoLead(p) \/ DoJoinReturn(p) \/ DoDelete(p))
           /\ SF_vars(DoRelock(p))
    /\ \A c \in Slots :
           WF_vars(ThunkStart(c) \/ (\E out \in Outcomes : ThunkReturn(c, out)) \/ ThunkDone(c))

SpecFlightLive == Init /\ [][NextFlightLive]_vars /\ FairFlight

\* -------------------------------------------------------------- cache.Group
\* RegisterPeers tests g.peers and assigns it with no lock held, so the test
\* and the assignment are two steps of the registering goroutine.  A test
\* that finds a picker attached panics, which ends the process.  Every
\* caller in the repository registers before the node serves its first Get
\* (main's startCacheServer, the HTTP tests).
RegisterPeers(p, pk) ==
    /\ proc = "up"
    /\ ndo = 0
    /\ reg[p] = NoArg
    /\ IF peers # NoPicker
       THEN /\ proc' = "exited"
            /\ reg' = reg
       ELSE /\ proc' = proc
            /\ reg' = [reg EXCEPT ![p] = pk]
    /\ UNCHANGED <<callerVars, flightVars, counter, ndo, groupVars, libVars>>

\* g.peers = peers
RegisterPeersSet(p) ==
    /\ proc = "up"
    /\ reg[p] # NoArg
    /\ peers' = reg[p]
    /\ reg' = [reg EXCEPT ![p] = NoArg]
    /\ UNCHANGED <<callerVars, flightVars, envVars, mainCache, fetches, returned, overlap, libVars>>

\* a caller enters Group.Get(k): its previous call's locals are gone
GetEnter(p, k) ==
    /\ Up
    /\ pc[p] \in {"idle", "done"}
    /\ \A q \in Procs : reg[q] = NoArg
    /\ ndo < MaxGet
    /\ ndo' = ndo + 1
    /\ key' = [key EXCEPT ![p] = k]
    /\ fnk' = [fnk EXCEPT ![p] = LoadKind]
    /\ cref' = [cref EXCEPT ![p] = 0]
    /\ seen' = [seen EXCEPT ![p] = NoSeen]
    /\ calls' = Release(p)
    /\ UNCHANGED <<reg, libVars, mu, mAlloc, m, counter, proc, peers, fetches>>

\* Group.Get(""): "key is required".
GroupGetEmptyKey(p) ==
    /\ GetEnter(p, EmptyKey)
    /\ ret' = [ret EXCEPT ![p] = [val |-> <<EmptyView>>, err |-> ErrKeyRequired]]
    /\ pc' = [pc EXCEPT ![p] = "done"]
    /\ UNCHANGED <<mainCache, returned, overlap>>

\* A Get that goes on to load although the store holds the key.
GroupGetHitLoads(p, k) ==
    /\ GetEnter(p, k)
    /\ CacheGet(mainCache, k).ok
    /\ mainCache' = CacheGet(mainCache, k).mc
    /\ ret' = [ret EXCEPT ![p] = NoRet]
    /\ pc' = [pc EXCEPT ![p] = "load"]
    /\ overlap' = [overlap EXCEPT ![k] = @ /\ ~returned[k]]
    /\ UNCHANGED returned

\* Group.Get(k), mainCache.get(k) hits: return the stored view.
GroupGetHit(p, k) ==
    /\ GetEnter(p, k)
    /\ CacheGet(mainCache, k).ok
    /\ mainCache' = CacheGet(mainCache, k).mc
    /\ ret' = [ret EXCEPT ![p] = [val |-> <<CacheGet(mainCache, k).value>>, err |-> NoErr]]
    /\ pc' = [pc EXCEPT ![p] = "done"]
    /\ overlap' = [overlap EXCEPT ![k] = @ /\ ~returned[k]]
    /\ returned' = [returned EXCEPT ![k] = TRUE]

\* Group.Get(k), mainCache.get(k) misses: go on to g.load(k).
GroupGetMiss(p, k) ==
    /\ GetEnter(p, k)
    /\ ~CacheGet(mainCache, k).ok
    /\ mainCache' = CacheGet(mainCache, k).mc
    /\ ret' = [ret EXCEPT ![p] = NoRet]
    /\ pc' = [pc EXCEPT ![p] = "load"]
    /\ overlap' = [overlap EXCEPT ![k] = @ /\ ~returned[k]]
    /\ UNCHANGED returned

\* g.load(k) calls g.loader.Do(k, closure).
Load(p) ==
    /\ pc[p] = "load"
    /\ DoEnter(p, key[p], LoadKind)
    /\ UNCHANGED <<reg, libVars, envVars, groupVars>>

\* A closure that never consults the picker.
LoadPickIgnoresPicker(c) ==
    /\ Up
    /\ calls[c].fn = "running"
    /\ calls[c].kind = LoadKind
    /\ calls' = [calls EXCEPT ![c].fn = "local"]
    /\ UNCHANGED <<reg, libVars, callerVars, mu, mAlloc, m, envVars, groupVars>>

\* The closure of load: with a picker attached that picks a peer for the key
\* it goes to getFromPeer, else to getLocally.
LoadPick(c) ==
    /\ Up
    /\ calls[c].fn = "running"
    /\ calls[c].kind = LoadKind
    /\ calls' = [calls EXCEPT ![c].fn =
                    IF peers # NoPicker /\ peers[calls[c].key] # NoPeer THEN "peer" ELSE "local"]
    /\ UNCHANGED <<reg, libVars, callerVars, mu, mAlloc, m, envVars, groupVars>>

\* A closure that also populates the local store with the peer's value.
PeerGetOkPopulates(c) ==
    /\ Up
    /\ calls[c].fn = "peer"
    /\ fetches' = [fetches EXCEPT ![calls[c].key].peer = @ + 1]
    /\ mainCache' = CacheAdd(mainCache, calls[c].key, PeerBytes(calls[c].key))
    /\ calls' = [calls EXCEPT ![c].fn = "assigned",
                              ![c].got = "peer",
                              ![c].val = <<PeerBytes(calls[c].key)>>,
                              ![c].err = NoErr]
    /\ UNCHANGED <<reg, libVars, callerVars, mu, mAlloc, m, envVars, peers, returned, overlap>>

\* getFromPeer succeeds: the closure returns ByteView{b: res.Value}, nil.
PeerGetOk(c) ==
    /\ Up
    /\ calls[c].fn = "peer"
    /\ fetches' = [fetches EXCEPT ![calls[c].key].peer = @ + 1]
    /\ calls' = [calls EXCEPT ![c].fn = "assigned",
                              ![c].got = "peer",
                              ![c].val = <<PeerBytes(calls[c].key)>>,
                              ![c].err = NoErr]
    /\ UNCHANGED <<reg, libVars, callerVars, mu, mAlloc, m, envVars, peers, mainCache, returned, overlap>>

\* A closure that returns the peer's error instead of falling back.
PeerGetFailReturns(c) ==
    /\ Up
    /\ calls[c].fn = "peer"
    /\ fetches' = [fetches EXCEPT ![calls[c].key].peer = @ + 1]
    /\ calls' = [calls EXCEPT ![c].fn = "assigned",
                              ![c].peerFailed = TRUE,
                              ![c].val = <<EmptyView>>,
                              ![c].err = ErrPeer]
    /\ UNCHANGED <<reg, libVars, callerVars, mu, mAlloc, m, envVars, peers, mainCache, returned, overlap>>

\* getFromPeer fails: the error is logged and the closure falls through to
\* getLocally.
PeerGetFail(c) ==
    /\ Up
    /\ calls[c].fn = "peer"
    /\ fetches' = [fetches EXCEPT ![calls[c].key].peer = @ + 1]
    /\ calls' = [calls EXCEPT ![c].fn = "local", ![c].peerFailed = TRUE]
    /\ UNCHANGED <<reg, libVars, callerVars, mu, mAlloc, m, envVars, peers, mainCache, returned, overlap>>

\* getLocally, the Getter returns bytes: clone them, populateCache, return
\* the view.
GetLocallyOk(c) ==
    /\ Up
    /\ calls[c].fn = "local"
    /\ fetches' = [fetches EXCEPT ![calls[c].key].loader = @ + 1]
    /\ mainCache' = CacheAdd(mainCache, calls[c].key, LoaderBytes(calls[c].key))
    /\ calls' = [calls EXCEPT ![c].fn = "assigned",
                              ![c].got = "ok",
                              ![c].val = <<LoaderBytes(calls[c].key)>>,
                              ![c].err = NoErr]
    /\ UNCHANGED <<reg, libVars, callerVars, mu, mAlloc, m, envVars, peers, returned, overlap>>

\* getLocally, the Getter fails: return ByteView{}, err.
GetLocallyFail(c) ==
    /\ Up
    /\ calls[c].fn = "local"
    /\ fetches' = [fetches EXCEPT ![calls[c].key].loader = @ + 1]
    /\ calls' = [calls EXCEPT ![c].fn = "assigned",
                              ![c].got = "err",
                              ![c].val = <<EmptyView>>,
                              ![c].err = ErrLoader]
    /\ UNCHANGED <<reg, libVars, callerVars, mu, mAlloc, m, envVars, peers, mainCache, returned, overlap>>

NextGroup ==
    \/ \E p \in Procs, pk \in Pickers : RegisterPeers(p, pk)
    \/ \E p \in Procs : RegisterPeersSet(p)
    \/ \E p \in Procs : GroupGetEmptyKey(p)
    \/ \E p \in Procs, k \in Keys : GroupGetHit(p, k)
    \/ \E p \in Procs, k \in Keys : GroupGetMiss(p, k)
    \/ \E p \in Procs : Load(p)
    \/ \E p \in Procs : DoJoin(p)
    \/ \E p \in Procs : DoLead(p)
    \/ \E p \in Procs : DoJoinReturn(p)
    \/ \E p \in Procs : DoRelock(p)
    \/ \E p \in Procs : DoDelete(p)
    \/ \E c \in Ids : ThunkStart(c)
    \/ \E c \in Ids : LoadPick(c)
    \/ \E c \in Ids : PeerGetOk(c)
    \/ \E c \in Ids : PeerGetFail(c)
    \/ \E c \in Ids : GetLocallyOk(c)
    \/ \E c \in Ids : GetLocallyFail(c)
    \/ \E c \in Ids : ThunkDone(c)

SpecGroup == Init /\ [][NextGroup]_vars

\* ---------------------------------------------- operations on lru.Cache
\* the keys of store c that are not in store d
Removed(keys, d) == keys \ d.cache

LruAdd(k, v) ==
    /\ Len(hist) < MaxOps
    /\ lru' = Add(lru, k, v)
    /\ hist' = Append(hist, [op |-> "Add", key |-> k, len |-> Len(v), hit |-> k \in lru.cache])
    /\ evicted' = Removed(lru.cache \cup {k}, lru')
    /\ UNCHANGED <<callerVars, flightVars, envVars, groupVars, reg, ringVars, poolVars, extVars>>

LruGet(k) ==
    /\ Len(hist) < MaxOps
    /\ lru' = Get(lru, k).lru
    /\ hist' = Append(hist, [op |-> "Get", key |-> k, len |-> Len(Get(lru, k).value),
                             hit |-> Get(lru, k).ok])
    /\ evicted' = Removed(lru.cache, lru')
    /\ UNCHANGED <<callerVars, flightVars, envVars, groupVars, reg, ringVars, poolVars, extVars>>

LruRemoveOldest ==
    /\ Len(hist) < MaxOps
    /\ lru' = RemoveOldest(lru)
    /\ hist' = Append(hist, [op |-> "RemoveOldest", key |-> "", len |-> 0, hit |-> Len(lru.ll) > 0])
    /\ evicted' = Removed(lru.cache, lru')
    /\ UNCHANGED <<callerVars, flightVars, envVars, groupVars, reg, ringVars, poolVars, extVars>>

NextLRU ==
    \/ \E k \in LruKeys, v \in LruValues : LruAdd(k, v)
    \/ \E k \in LruKeys : LruGet(k)
    \/ LruRemoveOldest

InitLRU ==
    /\ InitGroup
    /\ InitLruOf(LruBudgets)
    /\ InitRingOf({3}, {AtoiHash})
    /\ InitPoolOf({<<1>>})
    /\ InitExt

SpecLRU == InitLRU /\ [][NextLRU]_vars

\* ------------------------------------------- operations on the hash ring
RingAdd(ids) ==
    /\ Len(added) + Len(ids) <= MaxRingPeers
    /\ ring' = MapAdd(ring, ids)
    /\ added' = added \o ids
    /\ owner' = [k \in ProbeKeys |-> MapGet(ring, k)]
    /\ lastAdd' = ids
    /\ ringGot' = NoGot
    /\ UNCHANGED <<callerVars, flightVars, envVars, groupVars, reg, lruVars, poolVars, extVars>>

RingGet(k) ==
    /\ ringGot' = [key |-> k, id |-> MapGet(ring, k), done |-> TRUE]
    /\ UNCHANGED <<callerVars, flightVars, envVars, groupVars, reg, lruVars, poolVars, extVars>>
    /\ UNCHANGED <<ring, added, owner, lastAdd>>

NextRing ==
    \/ \E ids \in ArgLists(PeerIds, MaxAddArgs) : RingAdd(ids)
    \/ \E k \in ProbeKeys : RingGet(k)

InitRing ==
    /\ InitGroup
    /\ InitLruOf({10})
    /\ InitRingOf(Replicas, Hashes)
    /\ InitPoolOf({<<1>>})
    /\ InitExt

SpecRing == InitRing /\ [][NextRing]_vars

\* ------------------------------------------------ operations on HTTPPool
\* Set: a new Map of defaultReplicas replicas with the default hash, and a
\* getter for every peer, under the pool's mutex.
Set(ids) ==
    /\ pool' = [pool EXCEPT !.peersNil = FALSE,
                            !.peers = MapAdd(NewMap(DefaultReplicas, NilHash), ids),
                            !.httpGetters = {ids[i] : i \in 1..Len(ids)}]
    /\ picked' = NoPick
    /\ UNCHANGED <<callerVars, flightVars, envVars, groupVars, reg, lruVars, ringVars, extVars>>

\* PickPeer: on a pool whose peers is still nil, p.peers.Get reads m.keys
\* through a nil *Map, a nil pointer dereference, and PickPeer panics (the
\* deferred Unlock runs).
PickPeer(k) ==
    /\ picked' =
         IF pool.peersNil
         THEN [key |-> k, getter |-> EmptyString, ok |-> FALSE, panicked |-> TRUE, done |-> TRUE]
         ELSE LET peer == MapGet(pool.peers, k) IN
              IF peer # EmptyString /\ peer # pool.self
              THEN [key |-> k,
                    getter |-> IF peer \in pool.httpGetters THEN peer ELSE EmptyString,
                    ok |-> TRUE, panicked |-> FALSE, done |-> TRUE]
              ELSE [key |-> k, getter |-> EmptyString, ok |-> FALSE,
                    panicked |-> FALSE, done |-> TRUE]
    /\ UNCHANGED <<callerVars, flightVars, envVars, groupVars, reg, lruVars, ringVars, extVars>>
    /\ UNCHANGED pool

NextPool ==
    \/ \E ids \in ArgLists(PoolIds, MaxPoolPeers) \cup {<<>>} : Set(ids)
    \/ \E k \in ProbeKeys : PickPeer(k)

InitPool ==
    /\ InitGroup
    /\ InitLruOf({10})
    /\ InitRingOf({3}, {AtoiHash})
    /\ InitPoolOf(PoolIds)
    /\ InitExt

SpecPool == InitPool /\ [][NextPool]_vars

\* ------------------------------- Set and PickPeer, statement by statement
\* p.mu.Lock() at the head of Set
SetLock(ids) ==
    /\ pmu = "free"
    /\ setter.pc = "idle"
    /\ pmu' = "Set"
    /\ setter' = [pc |-> "newmap", peers |-> ids, i |-> 0]
    /\ UNCHANGED <<nonPoolVars, poolVars, picker>>

\* p.peers = consistenthash.NewMap(defaultReplicas, nil)
SetNewMap ==
    /\ setter.pc = "newmap"
    /\ pool' = [pool EXCEPT !.peersNil = FALSE,
                            !.peers = NewMap(DefaultReplicas, NilHash)]
    /\ setter' = [setter EXCEPT !.pc = "add"]
    /\ UNCHANGED <<nonPoolVars, picked, pmu, picker>>

\* p.peers.Add(peers...): one turn of its outer loop, the positions of one
\* peer appended to m.keys
SetAdd ==
    /\ setter.pc = "add"
    /\ setter.i < Len(setter.peers)
    /\ pool' = [pool EXCEPT !.peers = AddReplicas(@, setter.peers[setter.i + 1], 0)]
    /\ setter' = [setter EXCEPT !.i = @ + 1]
    /\ UNCHANGED <<nonPoolVars, picked, pmu, picker>>

\* the sort.Ints(m.keys) that ends Add
SetSort ==
    /\ setter.pc = "add"
    /\ setter.i = Len(setter.peers)
    /\ pool' = [pool EXCEPT !.peers.keys = SortSeq(@, LAMBDA a, b : a < b)]
    /\ setter' = [setter EXCEPT !.pc = "make"]
    /\ UNCHANGED <<nonPoolVars, picked, pmu, picker>>

\* p.httpGetters = make(map[string]*httpGetter, len(peers))
SetMake ==
    /\ setter.pc = "make"
    /\ pool' = [pool EXCEPT !.httpGetters = {}]
    /\ setter' = [setter EXCEPT !.pc = "getters", !.i = 0]
    /\ UNCHANGED <<nonPoolVars, picked, pmu, picker>>

\* one turn of the loop that gives every peer its httpGetter
SetGetter ==
    /\ setter.pc = "getters"
    /\ setter.i < Len(setter.peers)
    /\ pool' = [pool EXCEPT !.httpGetters = @ \cup {setter.peers[setter.i + 1]}]
    /\ setter' = [setter EXCEPT !.i = @ + 1]
    /\ UNCHANGED <<nonPoolVars, picked, pmu, picker>>

\* the deferred p.mu.Unlock() of Set
SetUnlock ==
    /\ setter.pc = "getters"
    /\ setter.i = Len(setter.peers)
    /\ pmu' = "free"
    /\ setter' = [setter EXCEPT !.pc = "idle"]
    /\ UNCHANGED <<nonPoolVars, poolVars, picker>>

\* A PickPeer that goes ahead without waiting for the mutex.
PickPeerNoLock(k) ==
    /\ picker.pc = "idle"
    /\ picker' = [pc |-> "get", key |-> k, peer |-> EmptyString]
    /\ UNCHANGED <<nonPoolVars, poolVars, pmu, setter>>

\* p.mu.Lock() at the head of PickPeer
PickPeerLock(k) ==
    /\ pmu = "free"
    /\ picker.pc = "idle"
    /\ pmu' = "PickPeer"
    /\ picker' = [pc |-> "get", key |-> k, peer |-> EmptyString]
    /\ UNCHANGED <<nonPoolVars, poolVars, setter>>

\* peer := p.peers.Get(key) and the test on it.  On a nil p.peers the call
\* panics; on "" or self PickPeer returns (nil, false); the deferred Unlock
\* runs on both ways out.
PickPeerGet ==
    /\ picker.pc = "get"
    /\ IF pool.peersNil
       THEN /\ picked' = [key |-> picker.key, getter |-> EmptyString, ok |-> FALSE,
                          panicked |-> TRUE, done |-> TRUE]
            /\ picker' = [pc |-> "idle", key |-> EmptyString, peer |-> EmptyString]
            /\ pmu' = "free"
       ELSE LET peer == MapGet(pool.peers, picker.key) IN
            IF peer # EmptyString /\ peer # pool.self
            THEN /\ picker' = [picker EXCEPT !.pc = "getter", !.peer = peer]
                 /\ UNCHANGED <<picked, pmu>>
            ELSE /\ picked' = [key |-> picker.key, getter |-> EmptyString, ok |-> FALSE,
                               panicked |-> FALSE, done |-> TRUE]
                 /\ picker' = [pc |-> "idle", key |-> EmptyString, peer |-> EmptyString]
                 /\ pmu' = "free"
    /\ UNCHANGED <<nonPoolVars, pool, setter>>

\* return p.httpGetters[peer], true, and the deferred Unlock
PickPeerReturn ==
    /\ picker.pc = "getter"
    /\ picked' = [key |-> picker.key,
                  getter |-> IF picker.peer \in pool.httpGetters THEN picker.peer
                             ELSE EmptyString,
                  ok |-> TRUE, panicked |-> FALSE, done |-> TRUE]
    /\ picker' = [pc |-> "idle", key |-> EmptyString, peer |-> EmptyString]
    /\ pmu' = "free"
    /\ UNCHANGED <<nonPoolVars, pool, setter>>

NextPoolSync ==
    \/ \E ids \in SetArgs : SetLock(ids)
    \/ SetNewMap
    \/ SetAdd
    \/ SetSort
    \/ SetMake
    \/ SetGetter
    \/ SetUnlock
    \/ \E k \in ProbeKeys : PickPeerLock(k)
    \/ PickPeerGet
    \/ PickPeerReturn

InitPoolSync ==
    /\ InitGroup
    /\ InitLruOf({10})
    /\ InitRingOf({3}, {AtoiHash})
    /\ InitPoolOf({<<1>>, <<2>>})
    /\ InitSync
    /\ InitArcOf({1})
    /\ InitNodes
    /\ InitEvOf({10})
    /\ InitBytes
    /\ InitStoreOf({10})

SpecPoolSync == InitPoolSync /\ [][NextPoolSync]_vars

\* ------------------------------------------------- operations on lru.ARC
\* Every method below holds arc.mu from its first statement to its return
\* and is one step.  Put(key, value) is PutWithTTL(key, value, 0).
\* A PutWithTTL that takes a negative ttl for no ttl.
PutWithTTLUnchecked(k, v, ttl) ==
    /\ arcRes.op # "fatal"
    /\ Len(arc.t1) + Len(arc.t2) <= MaxArcList
    /\ arc' = PutEntry(arc, now, k, v, ttl)
    /\ arcRes' = [NoArcRes EXCEPT !.op = "Put", !.key = k, !.value = v,
                                  !.due = IF ttl < 0 THEN Rejected
                                          ELSE IF ttl > 0 THEN now + ttl ELSE NoExpiry]
    /\ UNCHANGED <<nonArcVars, now, reaper>>

PutWithTTL(k, v, ttl) ==
    /\ arcRes.op # "fatal"
    /\ Len(arc.t1) + Len(arc.t2) <= MaxArcList
    /\ arc' = IF ttl < 0 THEN arc ELSE PutEntry(arc, now, k, v, ttl)
    /\ arcRes' = [NoArcRes EXCEPT !.op = "Put", !.key = k, !.value = v,
                                  !.due = IF ttl < 0 THEN Rejected
                                          ELSE IF ttl > 0 THEN now + ttl ELSE NoExpiry]
    /\ UNCHANGED <<nonArcVars, now, reaper>>

\* A Get that does not look at expireAt.
ArcGetNoExpiry(k) ==
    /\ arcRes.op # "fatal"
    /\ Len(arc.t1) + Len(arc.t2) <= MaxArcList
    /\ IF k \in ArcIndex(arc)
       THEN /\ arc' = Promote(arc, k)
            /\ arcRes' = [NoArcRes EXCEPT !.op = "Get", !.key = k, !.ok = TRUE,
                                                 !.ret = ArcEntry(arc, k).value]
       ELSE /\ arc' = arc
            /\ arcRes' = [NoArcRes EXCEPT !.op = "Get", !.key = k]
    /\ UNCHANGED <<nonArcVars, now, reaper>>

\* ARC.Get
ArcGet(k) ==
    /\ arcRes.op # "fatal"
    /\ Len(arc.t1) + Len(arc.t2) <= MaxArcList
    /\ IF k \in ArcIndex(arc)
       THEN LET entry == ArcEntry(arc, k) IN
            IF entry.expireAt # NoExpiry /\ now > entry.expireAt
            THEN /\ arc' = [Delete(RemoveEle(arc, IF entry.inT2 THEN "t2" ELSE "t1", k), {k})
                              EXCEPT !.size = @ - 1]
                 /\ arcRes' = [NoArcRes EXCEPT !.op = "Get", !.key = k, !.expired = TRUE]
            ELSE /\ arc' = Promote(arc, k)
                 /\ arcRes' = [NoArcRes EXCEPT !.op = "Get", !.key = k, !.ok = TRUE,
                                                 !.ret = entry.value]
       ELSE /\ arc' = arc
            /\ arcRes' = [NoArcRes EXCEPT !.op = "Get", !.key = k]
    /\ UNCHANGED <<nonArcVars, now, reaper>>

\* ARC.Remove
ArcRemove(k) ==
    /\ arcRes.op # "fatal"
    /\ arc' = IF k \in ArcIndex(arc)
              THEN [Delete(RemoveEle(arc, IF ArcEntry(arc, k).inT2 THEN "t2" ELSE "t1", k), {k})
                      EXCEPT !.size = @ - 1]
              ELSE arc
    /\ arcRes' = [NoArcRes EXCEPT !.op = "Remove"]
    /\ UNCHANGED <<nonArcVars, now, reaper>>

\* ARC.Clear
ArcClear ==
    /\ arcRes.op # "fatal"
    /\ arc' = NewARC(arc.capacity)
    /\ arcRes' = [NoArcRes EXCEPT !.op = "Clear"]
    /\ UNCHANGED <<nonArcVars, now, reaper>>

\* The goroutine of cleanupLoop: on a tick of its ticker cleanup scans t1,
\* t2, b1 and b2, one cleanupList call after the other, each reading the
\* clock as it starts.  Neither cleanupLoop nor cleanup nor cleanupList
\* takes arc.mu, so the methods above run between two of its calls; and
\* where cleanupList has an expired entry to delete from arc.cache while a
\* method is at the map, the runtime may stop the process with "fatal
\* error: concurrent map writes".
cleanup ==
    /\ arcRes.op # "fatal"
    /\ \/ /\ arc' = cleanupList(arc, now, ArcLists[reaper + 1])
          /\ reaper' = (reaper + 1) % Len(ArcLists)
          /\ UNCHANGED arcRes
       \/ /\ cleanupList(arc, now, ArcLists[reaper + 1]).size # arc.size
          /\ arcRes' = [NoArcRes EXCEPT !.op = "fatal"]
          /\ UNCHANGED <<arc, reaper>>
    /\ UNCHANGED <<nonArcVars, now>>

\* time passes
Tick ==
    /\ arcRes.op # "fatal"
    /\ now < MaxTime
    /\ now' = now + 1
    /\ UNCHANGED <<nonArcVars, arc, reaper, arcRes>>

NextARC ==
    \/ \E k \in ArcKeys, vt \in PutArgs : PutWithTTL(k, vt[1], vt[2])
    \/ \E k \in ArcKeys : ArcGet(k)
    \/ \E k \in ArcKeys : ArcRemove(k)
    \/ ArcClear
    \/ cleanup
    \/ Tick

InitARC ==
    /\ InitGroup
    /\ InitLruOf({10})
    /\ InitRingOf({3}, {AtoiHash})
    /\ InitPoolOf({<<1>>})
    /\ InitSync
    /\ InitArcOf(Capacities)
    /\ InitNodes
    /\ InitEvOf({10})
    /\ InitBytes
    /\ InitStoreOf({10})

SpecARC == InitARC /\ [][NextARC]_vars

\* ------------------------------------- the bytes of a Group's values
\* getLocally for a key the store does not hold: the Getter returns a new
\* slice (buf = 0) or one it returned before and kept (buf), and the store
\* gets ByteView{b: cloneBytes(bytes)}
GetLocallyBytes(k, buf) ==
    /\ stored[k] = 0
    /\ buf \in {0} \cup {loaned[j] : j \in Keys}
    /\ Len(heap) + 2 <= MaxArrays
    /\ LET h1 == IF buf = 0 THEN Append(heap, LoaderBytes(k)) ELSE heap
           bytes == IF buf = 0 THEN Len(h1) ELSE buf
           c == cloneBytes(h1, bytes) IN
       /\ heap' = c.heap
       /\ loaned' = [loaned EXCEPT ![k] = bytes]
       /\ stored' = [stored EXCEPT ![k] = c.ref]
       /\ orig' = [orig EXCEPT ![k] = h1[bytes]]
    /\ UNCHANGED <<nonBytesVars, held>>

\* view.ByteSlice() by a caller whose Group.Get(k) returned the stored view
ByteSlice(k) ==
    /\ stored[k] # 0
    /\ Len(heap) < MaxArrays
    /\ LET c == cloneBytes(heap, stored[k]) IN
       /\ heap' = c.heap
       /\ held' = [held EXCEPT ![k] = c.ref]
    /\ UNCHANGED <<nonBytesVars, loaned, stored, orig>>

\* the Getter's owner, or a caller of ByteSlice, writes into its slice
Mutate(b, i) ==
    /\ b \in {loaned[k] : k \in Keys} \cup {held[k] : k \in Keys}
    /\ b # 0
    /\ i \in 1..Len(heap[b])
    /\ heap[b][i] # 0
    /\ heap' = [heap EXCEPT ![b][i] = 0]
    /\ UNCHANGED <<nonBytesVars, loaned, stored, held, orig>>

NextBytes ==
    \/ \E k \in Keys, buf \in 0..MaxArrays : GetLocallyBytes(k, buf)
    \/ \E k \in Keys : ByteSlice(k)
    \/ \E b \in 1..MaxArrays, i \in 1..2 : Mutate(b, i)

InitByteView ==
    /\ InitGroup
    /\ InitLruOf({10})
    /\ InitRingOf({3}, {AtoiHash})
    /\ InitPoolOf({<<1>>})
    /\ InitSync
    /\ InitArcOf({1})
    /\ InitNodes
    /\ InitEvOf({10})
    /\ InitBytes
    /\ InitStoreOf({10})

SpecBytes == InitByteView /\ [][NextBytes]_vars

\* --------------------------------------------- the cache facade on its own
\* cache.add
FacadeAdd(k, v) ==
    /\ store' = CacheAdd(store, k, v)
    /\ storeRes' = [NoStoreRes EXCEPT !.op = "add", !.key = k, !.value = v]
    /\ UNCHANGED <<nonStoreVars>>

\* cache.get
FacadeGet(k) ==
    /\ LET r == CacheGet(store, k) IN
       /\ store' = r.mc
       /\ storeRes' = [NoStoreRes EXCEPT !.op = "get", !.key = k, !.ok = r.ok,
                                         !.value = r.value]
    /\ UNCHANGED <<nonStoreVars>>

\* cache.Len
FacadeLen ==
    /\ storeRes' = [NoStoreRes EXCEPT !.op = "Len", !.n = CacheLen(store).n,
                                      !.panicked = CacheLen(store).panicked]
    /\ UNCHANGED <<nonStoreVars, store>>

NextStore ==
    \/ \E k \in LruKeys, v \in LruValues : FacadeAdd(k, v)
    \/ \E k \in LruKeys : FacadeGet(k)
    \/ FacadeLen

InitStore ==
    /\ InitGroup
    /\ InitLruOf({10})
    /\ InitRingOf({3}, {AtoiHash})
    /\ InitPoolOf({<<1>>})
    /\ InitSync
    /\ InitArcOf({1})
    /\ InitNodes
    /\ InitEvOf({10})
    /\ InitBytes
    /\ InitStoreOf(LruBudgets)

SpecStore == InitStore /\ [][NextStore]_vars

\* ---------------------------------------------------------- the cluster
\* a client calls Group.Get(k) on node n
ClientGet(c, n, k) ==
    /\ chain[c] = <<>> \/ (Len(chain[c]) = 1 /\ chain[c][1].st = "done")
    /\ chain' = [chain EXCEPT ![c] = <<Frame(n, k)>>]
    /\ UNCHANGED <<nonClusterVars, flight, stores>>

\* Group.Get up to the lookup in Do: a hit returns; on a miss load calls
\* loader.Do, which joins the call under way for the key or starts one
NodeGet(c) ==
    /\ chain[c] # <<>>
    /\ Top(c).st = "get"
    /\ LET f == Top(c)
           r == CacheGet(stores[f.node], f.key) IN
       IF r.ok
       THEN /\ stores' = [stores EXCEPT ![f.node] = r.mc]
            /\ chain' = [chain EXCEPT ![c] = SetTop(c, [f EXCEPT !.st = "done", !.via = "hit"])]
            /\ UNCHANGED flight
       ELSE IF f.key \in flight[f.node]
       THEN /\ chain' = [chain EXCEPT ![c] = SetTop(c, [f EXCEPT !.st = "join"])]
            /\ UNCHANGED <<flight, stores>>
       ELSE /\ flight' = [flight EXCEPT ![f.node] = @ \cup {f.key}]
            /\ chain' = [chain EXCEPT ![c] = SetTop(c, [f EXCEPT !.st = "load"])]
            /\ UNCHANGED stores
    /\ UNCHANGED nonClusterVars

\* The thunk of load.  PickPeer finds the owner on the ring; for an owner
\* other than the node itself getFromPeer sends the request, which reaches
\* the owner's ServeHTTP and its Group.Get with the key as the path carries
\* it; else getLocally loads, populates the store, and Do returns.
NodeLoad(c) ==
    /\ chain[c] # <<>>
    /\ Top(c).st = "load"
    /\ LET f == Top(c)
           peer == MapGet(ClusterRing, f.key) IN
       IF peer # EmptyString /\ peer # f.node
       THEN /\ chain' = [chain EXCEPT ![c] =
                            Append(SetTop(c, [f EXCEPT !.st = "wait"]),
                                   Frame(peer, OnTheWire(f.key)))]
            /\ UNCHANGED <<flight, stores>>
       ELSE /\ stores' = [stores EXCEPT ![f.node] = CacheAdd(@, f.key, <<7>>)]
            /\ flight' = [flight EXCEPT ![f.node] = @ \ {f.key}]
            /\ chain' = [chain EXCEPT ![c] = SetTop(c, [f EXCEPT !.st = "done", !.via = "loader"])]
    /\ UNCHANGED nonClusterVars

\* the request to the peer fails before the peer serves it: the thunk falls
\* back to getLocally
PeerFails(c) ==
    /\ Len(chain[c]) >= 2
    /\ Top(c).st = "get"
    /\ LET back == SubSeq(chain[c], 1, Len(chain[c]) - 1)
           f == back[Len(back)] IN
       /\ stores' = [stores EXCEPT ![f.node] = CacheAdd(@, f.key, <<7>>)]
       /\ flight' = [flight EXCEPT ![f.node] = @ \ {f.key}]
       /\ chain' = [chain EXCEPT ![c] =
                       [back EXCEPT ![Len(back)] = [f EXCEPT !.st = "done", !.via = "loader"]]]
    /\ UNCHANGED nonClusterVars

\* ServeHTTP writes the response; getFromPeer returns the peer's bytes and
\* Do returns them, nothing being stored
PeerReturns(c) ==
    /\ Len(chain[c]) >= 2
    /\ Top(c).st = "done"
    /\ LET back == SubSeq(chain[c], 1, Len(chain[c]) - 1)
           f == back[Len(back)] IN
       /\ flight' = [flight EXCEPT ![f.node] = @ \ {f.key}]
       /\ chain' = [chain EXCEPT ![c] =
                       [back EXCEPT ![Len(back)] = [f EXCEPT !.st = "done", !.via = "peer"]]]
    /\ UNCHANGED <<nonClusterVars, stores>>

\* a joiner's Wait returns once the call it joined is over
JoinReturns(c) ==
    /\ chain[c] # <<>>
    /\ Top(c).st = "join"
    /\ Top(c).key \notin flight[Top(c).node]
    /\ chain' = [chain EXCEPT ![c] = SetTop(c, [Top(c) EXCEPT !.st = "done", !.via = "joined"])]
    /\ UNCHANGED <<nonClusterVars, flight, stores>>

NextCluster ==
    \/ \E c \in Clients, n \in Nodes, k \in ClusterKeys : ClientGet(c, n, k)
    \/ \E c \in Clients : NodeGet(c)
    \/ \E c \in Clients : NodeLoad(c)
    \/ \E c \in Clients : PeerFails(c)
    \/ \E c \in Clients : PeerReturns(c)
    \/ \E c \in Clients : JoinReturns(c)

SpecCluster == Init /\ [][NextCluster]_vars

\* ------------------------------------- Cache.Add, statement by statement
\* the test of the for loop of Add
OverBudget(c) == c.maxBytes # 0 /\ c.maxBytes < c.nbytes

\* Add up to its for loop: the node is updated and moved to the front, or
\* pushed to the front and indexed, and nbytes adjusted
AddEnter(k, v) ==
    /\ ev.pc = "idle"
    /\ LET c == ev.lru IN
       ev' = [pc |-> "loop",
              lru |-> IF k \in c.cache
                      THEN LET i == IndexOf(c.ll, k)
                               ll1 == MoveToFront(c.ll, i) IN
                           [c EXCEPT !.ll = [ll1 EXCEPT ![1] = [key |-> k, value |-> v]],
                                     !.nbytes = @ + Len(v) - Len(c.ll[i].value)]
                      ELSE [c EXCEPT !.ll = <<[key |-> k, value |-> v]>> \o c.ll,
                                     !.cache = @ \cup {k},
                                     !.nbytes = @ + Len(k) + Len(v)]]
    /\ UNCHANGED nonEvVars

\* one turn of the loop: the test holds and RemoveOldest is called
AddEvict ==
    /\ ev.pc = "loop"
    /\ OverBudget(ev.lru)
    /\ ev' = [ev EXCEPT !.lru = RemoveOldest(ev.lru)]
    /\ UNCHANGED nonEvVars

\* the test fails and Add returns
AddReturn ==
    /\ ev.pc = "loop"
    /\ ~OverBudget(ev.lru)
    /\ ev' = [ev EXCEPT !.pc = "idle"]
    /\ UNCHANGED nonEvVars

NextEvict ==
    \/ \E k \in LruKeys, v \in LruValues : AddEnter(k, v)
    \/ AddEvict
    \/ AddReturn

InitEvict ==
    /\ InitGroup
    /\ InitLruOf({10})
    /\ InitRingOf({3}, {AtoiHash})
    /\ InitPoolOf({<<1>>})
    /\ InitSync
    /\ InitArcOf({1})
    /\ InitNodes
    /\ InitBytes
    /\ InitStoreOf({10})
    /\ InitEvOf(AnyBudgets)

SpecEvict == InitEvict /\ [][NextEvict]_vars

\* ------------------------------------------------- claims on singleflight
\* a call whose thunk has been handed to a goroutine and has not finished
InFlight(c) == calls[c].fn \in {"spawned", "running", "peer", "local", "assigned", "unwinding"}

Leads(p) == cref[p] # 0 /\ calls[cref[p]].leader = p

Published(c) == [val |-> calls[c].val, err |-> calls[c].err]

\* C1: in every reachable state, for every non-empty key, at most one thunk
\* passed to Do for that key is in progress, whatever the interleaving.
C1_OneThunkPerKey ==
    \A k \in Keys : Cardinality({c \in Ids : calls[c].key = k /\ InFlight(c)}) <= 1

\* C1 witness: a leader waits on its running thunk while another caller of
\* the same key waits as a joiner.
C1_Witness ==
    \E p, q \in Procs :
        /\ p # q
        /\ key[p] = key[q]
        /\ pc[p] = "leadwait"
        /\ pc[q] = "joinwait"
        /\ cref[p] = cref[q]
        /\ calls[cref[p]].fn = "running"

\* the caller looked the key up while the thunk of the entry it found had
\* not finished
InBurst(p) == seen[p].checked /\ seen[p].entry # 0 /\ seen[p].fn \in {"spawned", "running"}

\* C2: every Do(k) issued while the running thunk of the first Do(k) has not
\* finished starts no thunk of its own, and all callers of the burst return
\* the one value that thunk produced.
C2_ExactlyOnce ==
    \A p \in Procs :
        InBurst(p) =>
            /\ cref[p] = seen[p].entry
            /\ ~Leads(p)
            /\ Cardinality({c \in Ids : calls[c].key = key[p] /\ ~calls[c].deleted}) <= 1
            /\ pc[p] = "done" =>
                /\ ret[p] = Published(cref[p])
                /\ \A q \in Procs : (pc[q] = "done" /\ cref[q] = cref[p]) => ret[q] = ret[p]

\* C2 witness: all callers asked for one key, all but the leader joined the
\* burst, the counter was incremented once and every caller returned 1.
C2_Witness ==
    /\ counter = 1
    /\ \A p \in Procs : pc[p] = "done" /\ key[p] = "a" /\ ret[p] = [val |-> <<1>>, err |-> NoErr]
    /\ \E p \in Procs : Leads(p) /\ \A q \in Procs \ {p} : InBurst(q)

\* C3: a caller that finds an entry runs no thunk of its own, does not return
\* before the leader's thunk has finished, and returns the pair that thunk
\* produced: (nil, E) when it failed, also when the caller arrived after the
\* thunk completed and before the leader removed the entry.
C3_JoinerSeesLeaderResult ==
    \A p \in Procs :
        (seen[p].checked /\ seen[p].entry # 0) =>
            /\ cref[p] = seen[p].entry
            /\ ~Leads(p)
            /\ pc[p] = "done" =>
                /\ calls[cref[p]].fn \in {"done", "fatal"}
                /\ ret[p] = Published(cref[p])
                /\ calls[cref[p]].out = "fail" => ret[p] = [val |-> Nil, err |-> ErrThunk]
                /\ calls[cref[p]].out = "count" => (ret[p].err = NoErr /\ ret[p].val # Nil)

\* C3 witness: a joiner that arrived after the failing thunk had completed
\* has returned the error E.
C3_Witness ==
    \E p \in Procs :
        /\ pc[p] = "done"
        /\ seen[p].entry # 0
        /\ seen[p].fn = "done"
        /\ ret[p].err = ErrThunk

\* the step by which the holder of the mutex leaves its critical section
HolderStep(p) == DoEmptyKey(p) \/ DoJoin(p) \/ DoLead(p) \/ DoDelete(p)

\* C5: the mutex is held neither while a thunk runs nor while a caller waits
\* on the completion signal: its holder is always inside one of the two
\* critical sections of Do and can leave it without waiting for anything, so
\* a running thunk for one key never blocks a Do on another key.
C5_NoLockWhileWaiting ==
    /\ \A p \in Procs : pc[p] \in {"idle", "joinwait", "leadwait", "done"} => mu # p
    /\ mu # 0 => pc[mu] \in {"locked", "deleting"}
    /\ (mu # 0 /\ Up) => ENABLED HolderStep(mu)

\* C5 witness: while the thunk of Do("a") is still running, a Do("b") that
\* was started after it has run its own thunk and returned.
C5_Witness ==
    \E p, q \in Procs :
        /\ pc[p] = "leadwait" /\ key[p] = "a" /\ cref[p] = 1
        /\ calls[1].fn = "running"
        /\ pc[q] = "done" /\ key[q] = "b" /\ cref[q] = 2
        /\ calls[2].leader = q /\ calls[2].fn = "done"

\* C6: if the thunk panics, every joiner waiting on the key is still released
\* and the entry is still removed: once the panic has run its course, no
\* caller of that call is left inside Do and the map holds no entry for it.
C6_PanicStillCleansUp ==
    \A c \in Ids :
        (calls[c].fn = "fatal" /\ proc = "exited") =>
            /\ m[calls[c].key] # c
            /\ \A p \in Procs : cref[p] = c => pc[p] = "done"

\* C7: Do("") returns a non-nil error at once: it never waits, runs no thunk
\* and adds no entry to the map.
C7_EmptyKeyRejected ==
    /\ m[EmptyKey] = 0
    /\ \A c \in Ids : calls[c].key # EmptyKey
    /\ \A p \in Procs :
        (key[p] = EmptyKey /\ pc[p] \notin {"idle", "locked"}) =>
            /\ pc[p] = "done"
            /\ ret[p] = [val |-> Nil, err |-> ErrKeyEmpty]
            /\ ret[p].err # NoErr
            /\ cref[p] = 0

\* C7 witness: a Do("") has returned its error while another caller's thunk
\* was still running.
C7_Witness ==
    \E p \in Procs, c \in Ids :
        /\ pc[p] = "done"
        /\ key[p] = EmptyKey
        /\ ret[p].err = ErrKeyEmpty
        /\ calls[c].fn = "running"

\* C8: once the leader has deleted the entry, the map holds no entry for the
\* key; a Do that looks the key up afterwards finds none, never joins the
\* finished call, and runs its own thunk: results are not memoized.
C8_NotMemoized ==
    /\ \A k \in MapKeys : m[k] # 0 =>
           (calls[m[k]].fn # "free" /\ calls[m[k]].key = k /\ ~calls[m[k]].deleted)
    /\ \A p \in Procs :
        /\ (pc[p] = "done" /\ Leads(p)) => (calls[cref[p]].deleted /\ m[key[p]] # cref[p])
        /\ seen[p].checked => ~seen[p].deleted
        /\ (seen[p].checked /\ key[p] # EmptyKey /\ seen[p].entry = 0) =>
               /\ Leads(p)
               /\ pc[p] = "done" => calls[cref[p]].out # "none"

\* C8 witness: two callers of one key have each led a call of their own, one
\* after the other, and the counting thunk ran twice.
C8_Witness ==
    \E p, q \in Procs :
        /\ p # q /\ key[p] = key[q]
        /\ pc[p] = "done" /\ pc[q] = "done"
        /\ Leads(p) /\ Leads(q)
        /\ ret[p] = [val |-> <<1>>, err |-> NoErr]
        /\ ret[q] = [val |-> <<2>>, err |-> NoErr]

\* ------------------------------------------------------- claims on Group
\* C4: for concurrent Group.Get(k) calls (every one of them began before any
\* of them returned) on a key absent from the store, the loader is called
\* once for k and a peer is called once for k.
C4_FetchedOnce ==
    \A k \in Keys : overlap[k] => (fetches[k].loader <= 1 /\ fetches[k].peer <= 1)

\* the step in which the closure of call c gets the value from the peer
PeerSuccess(c) == calls[c].fn = "peer" /\ calls'[c].fn = "assigned"

\* C9: when load obtains the value from a peer without error, the step leaves
\* the local store as it was (the key is not added), and load returns that
\* value with a nil error.
C9_PeerValueNotCached ==
    /\ [][\A c \in Slots : PeerSuccess(c) =>
             /\ mainCache' = mainCache
             /\ calls'[c].val = <<PeerBytes(calls[c].key)>>
             /\ calls'[c].err = NoErr]_vars
    /\ [](\A p \in Procs :
             (pc[p] = "done" /\ cref[p] # 0 /\ calls[cref[p]].got = "peer") =>
                 ret[p] = [val |-> <<PeerBytes(key[p])>>, err |-> NoErr])

\* C9 witness: a Get has returned the peer's value and the store does not
\* hold the key.
C9_Witness ==
    \E p \in Procs :
        /\ pc[p] = "done"
        /\ cref[p] # 0
        /\ calls[cref[p]].got = "peer"
        /\ ret[p] = [val |-> <<PeerBytes(key[p])>>, err |-> NoErr]
        /\ ~CacheHas(mainCache, key[p])

\* C10: when a peer was picked and the peer call failed, load ran the local
\* loader: Get returns the loader's value with a nil error when the loader
\* succeeded, and the loader's error, not the peer's, when it failed too.
C10_FallbackToLoader ==
    \A p \in Procs :
        (pc[p] = "done" /\ cref[p] # 0 /\ calls[cref[p]].peerFailed) =>
            \/ /\ calls[cref[p]].got = "ok"
               /\ ret[p] = [val |-> <<LoaderBytes(key[p])>>, err |-> NoErr]
            \/ /\ calls[cref[p]].got = "err"
               /\ ret[p] = [val |-> <<EmptyView>>, err |-> ErrLoader]
               /\ ret[p].err # ErrPeer

\* C10 witness: the peer call failed and then the loader failed, and Get has
\* returned the loader's error.
C10_Witness ==
    \E p \in Procs :
        /\ pc[p] = "done"
        /\ cref[p] # 0
        /\ calls[cref[p]].peerFailed
        /\ calls[cref[p]].got = "err"
        /\ ret[p].err = ErrLoader

\* the step in which key k enters the local store
EntersStore(k) == ~CacheHas(mainCache, k) /\ CacheHas(mainCache', k)

\* C11 as stated: a key enters the local store only while no picker is
\* attached or the attached picker picks no peer for the key.
C11_PopulatedOnlyAsOwner ==
    [][\A k \in Keys : EntersStore(k) => (peers = NoPicker \/ peers[k] = NoPeer)]_vars

\* C11 amended: a key enters the local store only by the local loader's
\* success in a load of that key, and in that load no picker was attached,
\* or the picker picked no peer for the key, or the picked peer's call had
\* failed.
C11_PopulatedOnlyByLoader ==
    [][\A k \in Keys : EntersStore(k) =>
          \E c \in Slots :
              /\ calls[c].fn = "local"
              /\ calls[c].key = k
              /\ calls'[c].got = "ok"
              /\ fetches'[k].loader = fetches[k].loader + 1
              /\ (peers = NoPicker \/ peers[k] = NoPeer \/ calls[c].peerFailed)]_vars

\* C11 witness: a load whose peer call failed has populated the store from
\* the local loader, with a picker attached that picks a peer for the key.
C11_Witness ==
    \E c \in Ids :
        /\ calls[c].got = "ok"
        /\ calls[c].peerFailed
        /\ peers # NoPicker
        /\ peers[calls[c].key] = Remote
        /\ CacheHas(mainCache, calls[c].key)

\* the step in which caller p returns from Group.Get
Returns(p) == pc[p] # "done" /\ pc'[p] = "done"

\* C12: when the local loader failed in the load a caller's Get was served
\* by, the Get returns the zero view and the loader's error, and the store
\* holds no entry for the key when it returns.
C12_LoaderErrorNotCached ==
    [][\A p \in Procs :
          (Returns(p) /\ cref'[p] # 0 /\ calls'[cref'[p]].got = "err") =>
              /\ ret'[p] = [val |-> <<EmptyView>>, err |-> ErrLoader]
              /\ ~CacheHas(mainCache', key[p])]_vars

\* C13: a Get on a non-empty key that the store holds returns the stored
\* value with a nil error in the one step, which calls no loader and no
\* peer, leaves the single-flight map and mutex alone and allocates no call
\* record; a Get goes on to load only when the store misses the key.
C13_HitReturnsStored ==
    /\ [][\A p \in Procs :
             (pc[p] \in {"idle", "done"} /\ pc'[p] = "load") =>
                 ~CacheHas(mainCache, key'[p])]_vars
    /\ [][ndo' = ndo + 1 =>
             /\ fetches' = fetches
             /\ m' = m /\ mAlloc' = mAlloc /\ mu' = mu
             /\ \A c \in Slots : calls[c].fn = "free" => calls'[c].fn = "free"
             /\ \A p \in Procs, k \in Keys :
                    (pc'[p] = "done" /\ cref'[p] = 0 /\ key'[p] = k /\ CacheHas(mainCache, k)) =>
                        ret'[p] = [val |-> <<CacheGet(mainCache, k).value>>, err |-> NoErr]]_vars

\* C13 witness: a Get has returned a stored value without joining or leading
\* any call, after exactly one loader call for that key.
C13_Witness ==
    \E p \in Procs :
        /\ pc[p] = "done"
        /\ cref[p] = 0
        /\ key[p] \in Keys
        /\ ret[p] = [val |-> <<LoaderBytes(key[p])>>, err |-> NoErr]
        /\ fetches[key[p]] = [loader |-> 1, peer |-> 0]
        /\ m[key[p]] = 0

\* C14: once a picker is attached to the Group it is never replaced.
C14_AttachedOnce ==
    [][peers # NoPicker => peers' = peers]_vars

\* ------------------------------------------------- claims on lru.Cache
RECURSIVE SumBytes(_)
\* the bytes the entries of a list take
SumBytes(ll) == IF Len(ll) = 0 THEN 0 ELSE EntryBytes(Head(ll)) + SumBytes(Tail(ll))

\* C15: with maxBytes > 0, whenever an Add, Get or RemoveOldest has returned,
\* nbytes is at most maxBytes, and so are the bytes of the resident entries.
C15_ByteBudget ==
    lru.maxBytes > 0 => (lru.nbytes <= lru.maxBytes /\ SumBytes(lru.ll) <= lru.maxBytes)

\* C15 witness: an Add has evicted an entry and left the store exactly full.
C15_Witness ==
    /\ Len(hist) >= 3
    /\ hist[Len(hist)].op = "Add"
    /\ evicted # {}
    /\ lru.maxBytes > 0
    /\ lru.nbytes = lru.maxBytes

\* operation i was an Add of k or a Get that hit k
Touches(i, k) ==
    /\ hist[i].key = k
    /\ (hist[i].op = "Add" \/ (hist[i].op = "Get" /\ hist[i].hit))

\* the time of the last Add or Get hit of k, 0 if there was none
LastAccess(k) ==
    LET ts == {i \in 1..Len(hist) : Touches(i, k)} IN
    IF ts = {} THEN 0 ELSE CHOOSE i \in ts : \A j \in ts : j <= i

\* three 3-byte values added under k1, k2, k3, in that order, to an empty
\* store of 10 bytes
ThreeAdds ==
    /\ lru.maxBytes = 10
    /\ Len(hist) = 3
    /\ hist[1] = [op |-> "Add", key |-> "k1", len |-> 3, hit |-> FALSE]
    /\ hist[2] = [op |-> "Add", key |-> "k2", len |-> 3, hit |-> FALSE]
    /\ hist[3] = [op |-> "Add", key |-> "k3", len |-> 3, hit |-> FALSE]

\* C16: the list is in order of last access, most recent at the front; the
\* entries an operation evicts were all accessed before every entry that
\* stays; and the third of three 5-byte Adds to a 10-byte store evicts
\* exactly k1.
C16_RecencyOrder ==
    /\ \A i, j \in 1..Len(lru.ll) :
           i < j => LastAccess(lru.ll[i].key) > LastAccess(lru.ll[j].key)
    /\ \A e \in evicted, r \in lru.cache : LastAccess(e) < LastAccess(r)
    /\ ThreeAdds => (evicted = {"k1"} /\ lru.cache = {"k2", "k3"})

\* C16 witness: after Add k1, Add k2 and a Get that hit k1, the Add of k3
\* has evicted k2, the entry accessed longest ago.
C16_Witness ==
    /\ lru.maxBytes = 10
    /\ Len(hist) = 4
    /\ hist[3] = [op |-> "Get", key |-> "k1", len |-> 3, hit |-> TRUE]
    /\ hist[4] = [op |-> "Add", key |-> "k3", len |-> 3, hit |-> FALSE]
    /\ evicted = {"k2"}
    /\ lru.cache = {"k1", "k3"}

\* ------------------------------------------- claims on consistenthash.Map
\* the positions on the ring
Positions(mp) == {mp.keys[i] : i \in 1..Len(mp.keys)}

Min(S) == CHOOSE x \in S : \A y \in S : x <= y

\* the peer at the first position at or after the hash of k, if there is
\* one, else the peer at the smallest position
Clockwise(mp, k) ==
    LET h == HashOf(mp.hash, k)
        up == {q \in Positions(mp) : q >= h} IN
    IF Positions(mp) = {} THEN EmptyString
    ELSE mp.mapping[IF up = {} THEN Min(Positions(mp)) ELSE Min(up)]

\* the ring of TestHashing after Add("6", "4", "2"), and after Add("8") too
TestRing3 == ring.nreplicas = 3 /\ ring.hash = AtoiHash /\ added = <<<<6>>, <<4>>, <<2>>>>
TestRing4 == ring.nreplicas = 3 /\ ring.hash = AtoiHash /\ added = <<<<6>>, <<4>>, <<2>>, <<8>>>>

\* C17: Get(key) returns the peer at the first position >= hash(key), or at
\* the smallest position when there is none; on the ring of TestHashing
\* Get("2") = "2", Get("11") = "2", Get("23") = "4", Get("27") = "2", and with
\* "8" added Get("27") = "8" and the other three are as before.
C17_GetClockwise ==
    ringGot.done =>
        /\ ringGot.id = Clockwise(ring, ringGot.key)
        /\ (TestRing3 \/ TestRing4) =>
              /\ ringGot.key = <<2>> => ringGot.id = <<2>>
              /\ ringGot.key = <<1, 1>> => ringGot.id = <<2>>
              /\ ringGot.key = <<2, 3>> => ringGot.id = <<4>>
        /\ TestRing3 => (ringGot.key = <<2, 7>> => ringGot.id = <<2>>)
        /\ TestRing4 => (ringGot.key = <<2, 7>> => ringGot.id = <<8>>)

\* C17 witness: on the ring of TestHashing, Get("27") was "2" by wrapping
\* before Add("8") and has returned "8" after it.
C17_Witness ==
    /\ TestRing4
    /\ lastAdd = <<<<8>>>>
    /\ owner[<<2, 7>>] = <<2>>
    /\ ringGot = [key |-> <<2, 7>>, id |-> <<8>>, done |-> TRUE]

Sorted(keys) == \A i, j \in 1..Len(keys) : i < j => keys[i] <= keys[j]

\* the different peer names passed to Add so far
AddedPeers == {added[i] : i \in 1..Len(added)}

\* C18 as stated: the positions are sorted ascending, and there are
\* (number of peers in the ring) x replicas of them.
C18_SortedAndSized ==
    /\ Sorted(ring.keys)
    /\ Len(ring.keys) = Cardinality(AddedPeers) * ring.nreplicas

\* C18 amended: the positions are sorted ascending, and there are
\* (number of names passed to Add, a name passed twice counted twice) x
\* replicas of them.
C18_SortedAndSizedPerAdd ==
    /\ Sorted(ring.keys)
    /\ Len(ring.keys) = Len(added) * ring.nreplicas

\* C18 witness: a peer has been added twice to a ring of three replicas,
\* which holds six positions for it.
C18_Witness ==
    /\ ring.nreplicas = 3
    /\ added = <<<<6>>, <<2>>, <<6>>>>
    /\ Len(ring.keys) = 9
    /\ Cardinality(AddedPeers) = 2

\* C19: after an Add, every key is owned by the peer that owned it before
\* the Add or by a peer that Add was given.
C19_BoundedReshuffle ==
    lastAdd # <<>> =>
        \A k \in ProbeKeys :
            \/ MapGet(ring, k) = owner[k]
            \/ \E i \in 1..Len(lastAdd) : MapGet(ring, k) = lastAdd[i]

\* C19 witness: Add of one peer to a ring that already had owners has moved
\* one key to the new peer and left another key with its owner.
C19_Witness ==
    /\ Len(lastAdd) = 1
    /\ \E k \in ProbeKeys :
           /\ owner[k] # EmptyString
           /\ owner[k] # lastAdd[1]
           /\ MapGet(ring, k) = lastAdd[1]
    /\ \E k \in ProbeKeys :
           /\ owner[k] # EmptyString
           /\ owner[k] # lastAdd[1]
           /\ MapGet(ring, k) = owner[k]

\* ---------------------------------------------------- claims on HTTPPool
\* the ring owner of k on the pool, the empty string on a pool with no ring
PoolOwner(k) == IF pool.peersNil THEN EmptyString ELSE MapGet(pool.peers, k)

\* C20: PickPeer(k) returns, and it returns (getter, true) exactly when the
\* ring owner of k is a peer other than the pool's own id, the getter being
\* that owner's; so it returns present = false when the owner is self or
\* the ring is empty, also on a pool whose Set has not been called.
C20_PickPeerContract ==
    picked.done =>
        /\ ~picked.panicked
        /\ picked.ok <=> (PoolOwner(picked.key) # EmptyString /\ PoolOwner(picked.key) # pool.self)
        /\ picked.ok => picked.getter = PoolOwner(picked.key)

\* the pool is a complete pair: no Set is under way, and either Set was never
\* called or the ring and the client map are those of the last Set's peers
PoolComplete ==
    /\ setter.pc = "idle"
    /\ \/ pool.peersNil
       \/ /\ pool.peers = MapAdd(NewMap(DefaultReplicas, NilHash), setter.peers)
          /\ pool.httpGetters = {setter.peers[i] : i \in 1..Len(setter.peers)}

\* C21: Set replaces the ring and the client map as one step as far as
\* PickPeer can tell: while a PickPeer is between its Lock and its Unlock
\* the pool is a complete pair (sorted full ring, a client for every peer),
\* and a PickPeer that returned present = true returned a non-nil getter,
\* the one of the ring owner it found.
C21_SetAtomicForPickPeer ==
    /\ picker.pc # "idle" => PoolComplete
    /\ picked.done /\ picked.ok => picked.getter # EmptyString

\* a PickPeer returned a getter, and a Set is now midway: the new ring has an
\* owner for that key and the new client map is still empty
C21_Witness ==
    /\ picked.done /\ picked.ok /\ picked.getter # EmptyString
    /\ setter.pc = "getters"
    /\ pool.httpGetters = {}
    /\ MapGet(pool.peers, picked.key) \notin {EmptyString, pool.self}

\* ------------------------------------------------------ claims on lru.ARC
\* C22: the number of resident entries, |T1| + |T2|, never exceeds capacity,
\* whatever calls and reaper scans came before.
C22_ResidentWithinCapacity ==
    Len(arc.t1) + Len(arc.t2) <= arc.capacity

\* e is an element of the list l
InList(l, e) == \E i \in 1..Len(l) : l[i] = e

\* C23: every key of the index maps to an element that is a member of exactly
\* one of T1 and T2, the one its inT2 tag names, and to no element of B1 or
\* B2.
C23_IndexedInOneList ==
    \A e \in ArcCache(arc) :
        /\ IF e.inT2 THEN InList(arc.t2, e) /\ ~InList(arc.t1, e)
           ELSE InList(arc.t1, e) /\ ~InList(arc.t2, e)
        /\ ~InList(arc.b1, e) /\ ~InList(arc.b2, e)

\* the step is a Get, a Put
GetStep == arcRes'.op = "Get" /\ now' = now /\ reaper' = reaper
PutStep == arcRes'.op = "Put" /\ now' = now /\ reaper' = reaper

\* C24: a Get(k) that follows a Put(k, v) with ttl >= 0, before that Put's
\* expiry, returns (v, true).
C24_PutThenGet ==
    [][(/\ arcRes.op = "Put"
        /\ arcRes.due # Rejected
        /\ arcRes.due = NoExpiry \/ now <= arcRes.due
        /\ GetStep
        /\ arcRes'.key = arcRes.key)
       => arcRes'.ok /\ arcRes'.ret = arcRes.value]_vars

\* C25: Get(k) returns a miss for an entry whose expire-at is set and past,
\* takes it out of the index and decrements size, whatever the reaper did or
\* did not do before; it returns the value of an entry whose expire-at is
\* later or not set, and that entry stays; and a Get(k) that follows a Put of
\* k with ttl > 0 after that Put's deadline is a miss.
C25_ExpiredNeverHit ==
    [][GetStep =>
        /\ IF arcRes'.key \in ArcIndex(arc)
           THEN LET e == ArcEntry(arc, arcRes'.key) IN
                IF e.expireAt # NoExpiry /\ now > e.expireAt
                THEN /\ ~arcRes'.ok
                     /\ arcRes'.key \notin ArcIndex(arc')
                     /\ arc'.size = arc.size - 1
                ELSE /\ arcRes'.ok /\ arcRes'.ret = e.value
                     /\ arcRes'.key \in ArcIndex(arc')
           ELSE ~arcRes'.ok
        /\ (/\ arcRes.op = "Put"
            /\ arcRes.key = arcRes'.key
            /\ arcRes.due \notin {NoExpiry, Rejected}
            /\ now > arcRes.due) => ~arcRes'.ok]_vars

\* Get found an entry past its expire-at while no scan of the reaper was
\* under way, and returned a miss; the key is gone from the index
C25_Witness ==
    /\ arcRes.op = "Get" /\ arcRes.expired /\ ~arcRes.ok
    /\ arcRes.key \notin ArcIndex(arc)
    /\ reaper = 0

\* C26: PutWithTTL with ttl < 0 changes nothing: the four lists, the index,
\* size and p, and with them any entry of k, its value and its expiry, are
\* as before, and a key that was absent is still absent.
C26_NegativeTTLNoOp ==
    [][(PutStep /\ arcRes'.due = Rejected) =>
         /\ arc' = arc
         /\ ArcIndex(arc') = ArcIndex(arc)]_vars

\* a PutWithTTL with ttl < 0 was made for a key that has an entry with an
\* expiry, another for a key that has none
C26_Witness ==
    /\ arcRes.op = "Put" /\ arcRes.due = Rejected
    /\ arcRes.key \in ArcIndex(arc)
    /\ ArcEntry(arc, arcRes.key).expireAt # NoExpiry
    /\ Len(arc.b1) > 0

\* C27: a Put with ttl >= 0 on a key that has an entry leaves that entry
\* with the expiry the Put asked for, now + ttl or none; and an entry without
\* expiry is not taken out of the index by a Get or by a step of the reaper.
C27_ExpiryFromLastPut ==
    [][/\ (PutStep /\ arcRes'.due # Rejected /\ arcRes'.key \in ArcIndex(arc)) =>
             /\ arcRes'.key \in ArcIndex(arc')
             /\ ArcEntry(arc', arcRes'.key).expireAt = arcRes'.due
       /\ (GetStep \/ reaper' # reaper) =>
             \A k \in ArcIndex(arc) :
                 ArcEntry(arc, k).expireAt = NoExpiry => k \in ArcIndex(arc')]_vars

\* C28: while a scan of the reaper is under way, no Get, Put, Remove or
\* Clear takes a step.
C28_ReaperExclusive ==
    [][(reaper # 0 /\ reaper' = reaper) => arc' = arc]_vars

\* ----------------------------------------------------- claims on ByteView
\* C29: writing into the slice a Getter returned, or into a slice returned
\* by ByteSlice, changes neither the bytes the store holds for the key nor,
\* with them, what a caller of Group.Get reads for it: they stay the bytes
\* the Getter's slice held when the value was stored.
C29_DefensiveCopy ==
    \A k \in Keys : stored[k] # 0 => heap[stored[k]] = orig[k]

\* for one key the Getter's slice and a slice from ByteSlice have both been
\* written into after the value was stored
C29_Witness ==
    \E k \in Keys :
        /\ stored[k] # 0 /\ loaned[k] # 0 /\ held[k] # 0
        /\ heap[loaned[k]] # orig[k]
        /\ heap[held[k]] # orig[k]

\* ------------------------------------------------- claims on the facade
\* C30: on a facade declared with its byte budget only, every operation
\* returns without fault: before the first add, get is a miss and Len
\* returns; the first add makes the lru.Cache with that budget and stores
\* the entry.
C30_ZeroValueLegal ==
    /\ ~storeRes.panicked
    /\ (storeRes.op = "get" /\ ~store.alloc) => ~storeRes.ok
    /\ storeRes.op = "add" =>
          /\ store.alloc
          /\ store.lru.maxBytes = store.cacheBytes
          /\ \/ storeRes.key \in store.lru.cache
             \/ Len(storeRes.key) + Len(storeRes.value) > store.cacheBytes

\* --------------------------------------------- more claims on lru.Cache
\* C31: whenever an Add, Get or RemoveOldest has returned, the index and the
\* list hold the same keys, no two nodes of the list carry the same key, and
\* nbytes is the sum of len(key) + value.Len() over the nodes.
C31_IndexListAccounting ==
    /\ {lru.ll[i].key : i \in 1..Len(lru.ll)} = lru.cache
    /\ \A i, j \in 1..Len(lru.ll) : lru.ll[i].key = lru.ll[j].key => i = j
    /\ lru.nbytes = SumBytes(lru.ll)

\* C31 witness: an Add that replaced the value of a resident key by one of
\* another length, an Add that evicted, and a RemoveOldest that removed a
\* node have all happened, and an entry is left.
C31_Witness ==
    /\ \E i \in 2..Len(hist) :
           /\ hist[i].op = "Add" /\ hist[i].hit
           /\ \E j \in 1..(i - 1) : hist[j].op = "Add" /\ hist[j].key = hist[i].key
                                    /\ hist[j].len # hist[i].len
    /\ \E i \in 1..Len(hist) : hist[i].op = "RemoveOldest" /\ hist[i].hit
    /\ lru.cache # {}

\* ------------------------------------------------- more claims on lru.ARC
\* the step is a Put with ttl >= 0 of a key that has no entry, into a cache
\* that is full and has a resident entry
FullPutStep ==
    /\ PutStep
    /\ arcRes'.due # Rejected
    /\ arcRes'.key \notin ArcIndex(arc)
    /\ arc.size >= arc.capacity
    /\ Len(arc.t1) + Len(arc.t2) > 0

\* the test replace makes to take its victim from T1
FromT1(a) == Len(a.t1) > 0 /\ (a.p > 0 \/ Len(a.b2) = 0)

\* what the Put of a new key into a full cache does on the side of T1, on
\* the side of T2
EvictsT1 ==
    LET last == arc.t1[Len(arc.t1)] IN
    /\ arc'.t1 = <<[kind |-> "arcEntry", key |-> arcRes'.key, value |-> arcRes'.value,
                    expireAt |-> arcRes'.due, inT2 |-> FALSE, idx |-> TRUE]>>
                 \o SubSeq(arc.t1, 1, Len(arc.t1) - 1)
    /\ arc'.t2 = arc.t2
    /\ Len(arc'.b1) >= 1 /\ arc'.b1[1].key = last.key
    /\ Len(arc'.b1) <= arc.capacity
    /\ arc'.b2 = arc.b2
    /\ arc'.p = (IF arc.p > 0 THEN arc.p - 1 ELSE 0)
    /\ ArcIndex(arc') = (ArcIndex(arc) \ {last.key}) \cup {arcRes'.key}

EvictsT2 ==
    /\ Len(arc.t2) > 0
    /\ arc'.t1 = <<[kind |-> "arcEntry", key |-> arcRes'.key, value |-> arcRes'.value,
                    expireAt |-> arcRes'.due, inT2 |-> FALSE, idx |-> TRUE]>> \o arc.t1
    /\ arc'.t2 = SubSeq(arc.t2, 1, Len(arc.t2) - 1)
    /\ Len(arc'.b2) >= 1 /\ arc'.b2[1].key = arc.t2[Len(arc.t2)].key
    /\ Len(arc'.b2) <= arc.capacity
    /\ arc'.b1 = arc.b1
    /\ arc'.p = (IF arc.p < arc.capacity THEN arc.p + 1 ELSE arc.capacity)
    /\ ArcIndex(arc') = (ArcIndex(arc) \ {arc.t2[Len(arc.t2)].key}) \cup {arcRes'.key}

\* C32: the Put of a new key into a full cache evicts one resident entry,
\* the back of T1 when T1 is not empty and (p > 0 or B2 is empty), else the
\* back of T2; the victim goes to the front of B1 or B2, p goes down by one
\* (not below 0) or up by one (not above capacity), the ghost list holds at
\* most capacity entries, the victim's key leaves the index and the new
\* entry is at the front of T1.
C32_ReplaceEvictsOne ==
    [][FullPutStep => IF FromT1(arc) THEN EvictsT1 ELSE EvictsT2]_vars

\* the element x of a list of a holds, at time t, an entry whose expire-at
\* is set and past: x is such an entry, or x is the element t2.PushFront
\* made around the indexed element of its key, which is one
HoldsExpired(a, t, x) ==
    \/ x.kind = "arcEntry" /\ x.expireAt # NoExpiry /\ t > x.expireAt
    \/ /\ x.kind = "Element"
       /\ \E e \in a.out : e.key = x.key /\ e.inT2 /\ e.expireAt # NoExpiry /\ t > e.expireAt

\* C33: a cleanupList call of the reaper's scan leaves in its list no entry
\* whose expire-at is set and before the time the call read, so that a scan
\* which nothing interrupts leaves none in T1, T2, B1 and B2, read or not.
C33_ScanRemovesExpired ==
    [][reaper' # reaper =>
          \A i \in 1..Len(arc'[ArcLists[reaper + 1]]) :
              ~HoldsExpired(arc', now, arc'[ArcLists[reaper + 1]][i])]_vars

\* C34: a Remove is the Remove of some key k for which the following holds:
\* if k has an entry, its element leaves the one of T1 and T2 that holds it,
\* so that |T1| + |T2| drops by one, k leaves the index (a Get of k then
\* misses) and size drops by one; if k has none, nothing changes.
C34_RemoveResident ==
    [][(arcRes'.op = "Remove" /\ now' = now /\ reaper' = reaper) =>
          \E k \in ArcKeys :
              IF k \in ArcIndex(arc)
              THEN /\ ArcIndex(arc') = ArcIndex(arc) \ {k}
                   /\ arc'.size = arc.size - 1
                   /\ Len(arc'.t1) + Len(arc'.t2) = Len(arc.t1) + Len(arc.t2) - 1
                   /\ \A i \in 1..Len(arc'.t1) : arc'.t1[i].key # k
                   /\ \A i \in 1..Len(arc'.t2) : arc'.t2[i].key # k
              ELSE arc' = arc]_vars

\* ------------------------------------------ more claims on singleflight
\* p is inside Do
InDo(p) == pc[p] \in {"locked", "joinwait", "leadwait", "deleting"}

\* C35: with thunks that all return, and fair scheduling, every caller that
\* is inside Do returns from it: no joiner and no leader waits forever.
C35_DoReturns ==
    \A p \in Procs : InDo(p) ~> (pc[p] = "done")

\* C35 witness: a caller that joined while the leader's thunk was running
\* has returned, and so has the leader.
C35_Witness ==
    \E p, q \in Procs :
        /\ p # q
        /\ pc[p] = "done" /\ Leads(p)
        /\ pc[q] = "done" /\ cref[q] = cref[p]
        /\ seen[q].entry # 0 /\ seen[q].fn = "running"

\* ---------------------------------------------------- claims on clusters
\* C36: where every node holds the same ring and is a member of it under
\* its own name, a Group.Get that was forwarded to the owner of its key is
\* served there from the store, by the loader or by joining such a call, and
\* is not forwarded again: no Group.Get is ever more than one hop away from
\* the client's.
C36_AtMostOneHop ==
    \A c \in Clients :
        /\ Len(chain[c]) <= 2
        /\ Len(chain[c]) = 2 => chain[c][2].via # "peer"

\* C37: Size(), the counter arc.size, equals |T1| + |T2| and the number of
\* keys in the index, whatever Put, Get, Remove, Clear and reaper scans came
\* before, for every capacity >= 0.
C37_SizeCountsResidents ==
    /\ arc.size = Len(arc.t1) + Len(arc.t2)
    /\ arc.size = Cardinality(ArcIndex(arc))

\* C38: a cleanupList call of the reaper's scan takes out of the index no
\* key whose entry has no expire-at or one that is not past, and leaves the
\* value of such a key as it is, also when B1 or B2 holds an expired ghost
\* of that key; so such a key is a Get hit after the scan as before.
C38_ScanSparesLive ==
    [][reaper' # reaper =>
          \A k \in ArcIndex(arc) :
              LET e == ArcEntry(arc, k) IN
              (e.expireAt = NoExpiry \/ now <= e.expireAt) =>
                  /\ k \in ArcIndex(arc')
                  /\ ArcEntry(arc', k).value = e.value]_vars

\* ---------------------------------------------- claims on Add's loop
\* C39: for every budget New takes, the loop of Add never makes a turn on
\* an empty list: by the time the list is empty the test of the loop fails
\* and Add returns, after at most Len() removals.
C39_LoopLeavesEmptyList ==
    (ev.pc = "loop" /\ Len(ev.lru.ll) = 0) => ~OverBudget(ev.lru)

====
